---- MODULE Spec2Model ----
(***************************************************************************)
(* TransScriptRT: the ring buffer, the audio segment, the script engine    *)
(* (pipeline coordinator) and the capture and stitching stage loops.       *)
(*                                                                         *)
(* Specifications:                                                         *)
(*   SpecRB    one thread using Ring_Buffer<time_point, false, Size>       *)
(*   SpecPipe  the capture and the stitching thread of main(), sharing the *)
(*             raw Ring_Buffer<Audio_Segment, true, AUDIO_BUFFER_SIZE>,    *)
(*             with the control path starting and stopping the engine and  *)
(*             the recording                                               *)
(*   SpecStitch  SpecPipe with the clock standing still                  *)
(*   SpecShutdown  SpecStitch under fair scheduling of the two threads     *)
(*   SpecLive  SpecStitch under fair scheduling that forces no failure of  *)
(*             the device or the filter and gives the mutex to a thread    *)
(*             that keeps asking for it                                    *)
(*   SpecEngine  a caller of the Script_Engine's methods                   *)
(*   SpecWrap  Ring_Buffer<T, Safe, 16>::wrap_index applied to an index    *)
(*   SpecMain  main() statement by statement up to the dispatch of the     *)
(*             stages, the calls made on the engine while they run, and    *)
(*             the exception or the return that ends main()                *)
(*   SpecSegment  a caller of the Audio_Segment's constructors, assignment *)
(*             operators, lazy_initialize and reset_audio                  *)
(***************************************************************************)
EXTENDS Integers, Sequences, FiniteSets, TLC

\* ------------------------------------------------------------------ bounds

\* Largest Size template parameter the single-thread ring buffer is built with.
MaxSize == 4
\* Largest number of values pushed in one run of the single-thread ring buffer.
MaxPush == 6
\* Size of the two Ring_Buffer<Audio_Segment, true, AUDIO_BUFFER_SIZE> of the
\* pipeline (16 in constants_config_tsrt.h, scaled down here).
AUDIO_BUFFER_SIZE == 2
\* Samples of a full segment (800 in constants_config_tsrt.h, scaled down here).
SAMPLES_PER_SEGMENT == 4
\* Half-windows the audio source delivers in one run.
MaxReads == 3
\* Largest value of the system clock.
MaxClock == 1
\* Calls of start/stop_engine and start/stop_recording made while the stages run.
MaxControl == 2
\* Calls a caller makes on the engine in one run.
MaxCalls == 3
\* Floats of a vocal embedding (512 in constants_config_tsrt.h, scaled down here).
VOCAL_EMBEDDINGS_SIZE == 2
\* Distinct embeddings a caller passes to add_speaker.
MaxEmbeddings == 2
\* Largest index handed to wrap_index on its own.
MaxIndex == 255
\* Largest length of an Audio_Segment used on its own.
MaxLen == 2
\* Operations applied in a row to an Audio_Segment used on its own.
MaxSegOps == 2

\* AUDIO_BUFFER_SIZE as constants_config_tsrt.h has it.
Capacity == 16

\* --------------------------------------------------------------- variables

VARIABLES
    tp_ring,     \* Ring_Buffer<time_point, false, Size>: [size, head, tail, buffer]
    tp_pushed,   \* values pushed since construction or the last clear(), in order
    tp_popped,   \* values pop() returned since construction or the last clear()
    tp_lastPop,  \* "none", or what the latest operation, a pop(), returned
    tp_orderly,  \* no push() has followed a pop() that returned a value
    tp_nvals,    \* number of values pushed since construction
    tp_fresh     \* a buffer constructed when tp_ring was constructed or last
                 \* cleared, and pushed to and popped from as tp_ring since

tpVars == <<tp_ring, tp_pushed, tp_popped, tp_lastPop, tp_orderly, tp_nvals, tp_fresh>>

VARIABLES
    speaker_diarization,     \* Script_Engine's four feature flags
    speech_recognition,
    speaker_identification,
    emotion_recognition,
    running,                 \* Script_Engine::running
    recording,               \* Script_Engine::recording
    speakers,                \* Script_Engine::speakers
    audio_buffer,            \* Script_Engine::audio_buffer, the finished segments
    call                     \* the latest call of a Script_Engine method: its
                             \* number n, the method op, what it returned ret,
                             \* prev, the op and ret of the call before it, and
                             \* started, whether start_engine() was called
                             \* before it, and arg, what it was called with

flagVars == <<speaker_diarization, speech_recognition, speaker_identification,
              emotion_recognition>>
engineVars == <<flagVars, running, recording, speakers, audio_buffer, call>>

VARIABLES
    raw,         \* main's shared_audio_ring_buffer
    mutex,       \* who holds raw's mutex: "free", "cap" or "st"
    streaming,   \* Audio_tsrt::is_streaming()
    clock,       \* std::chrono::system_clock::now()
    cap,         \* audio_recording_thread: its position and its locals
    st,          \* audio_preprocessing_thread: its position and its locals
    reads,       \* per half-window read: the clock and the control calls so far
    pushes,      \* the half-windows handed to raw.push, by number
    halves,      \* the half-windows raw.pop returned to the stitching stage
    published,   \* the full windows stored in audio_buffer, in order
    ctl          \* control calls so far: [ops, stops, restarts]; boot: the recording
                 \* was restarted and no half-window was stitched since;
                 \* bootPublished: such a half-window completed a window

pipeVars == <<raw, mutex, streaming, clock, cap, st, reads, pushes, halves, published, ctl>>

VARIABLES
    wrap_arg,    \* the argument of a call of Ring_Buffer::wrap_index
    wrap_ret,    \* <<>>, or <<r>> once wrap_index(wrap_arg) returned r
    seg_obj,     \* an Audio_Segment used on its own
    seg_made,    \* the Audio_Segment constructed from seg_obj, or assigned from it
    seg_call     \* the latest operation on them: its number n, its name op,
                 \* its argument arg, how it ended (ret), and seg_obj and seg_made
                 \* before it

VARIABLES
    main_pc,     \* main(): the statement it is at, by the line of main.cpp
    tasks,       \* main()'s tasks, the stage functions pushed so far, in order
    thrown,      \* the exception that left main()'s try block, or NoException
    exit_status  \* the value main() returned, -1 while it has not returned

unitVars == <<wrap_arg, wrap_ret, seg_obj, seg_made, seg_call, main_pc, tasks, thrown, exit_status>>

vars == <<tpVars, engineVars, pipeVars, unitVars>>

\* ------------------------------------------------------------- ring buffer

\* Bitwise AND of two naturals, bit by bit.
RECURSIVE BitAnd(_, _)
BitAnd(a, b) ==
    IF a = 0 \/ b = 0 THEN 0
    ELSE (IF a % 2 = 1 /\ b % 2 = 1 THEN 1 ELSE 0) + 2 * BitAnd(a \div 2, b \div 2)

is_power_of_two(Size) == Size # 0 /\ BitAnd(Size, Size - 1) = 0

\* wrap_index with the mask Size in the place of Size - 1.
wrap_index_masking_with_Size(Size, index) ==
    IF is_power_of_two(Size) THEN BitAnd(index, Size) ELSE index % Size

\* Lines 53-58: index & (Size - 1) if Size is a power of two, else index % Size.
wrap_index(Size, index) ==
    IF is_power_of_two(Size) THEN BitAnd(index, Size - 1) ELSE index % Size

\* A default-constructed time_point (the clock's epoch).
DefaultTimePoint == 0

\* Ring_Buffer(): head and tail 0, Size default-constructed slots.
NewRing(Size, dflt) ==
    [size |-> Size, head |-> 0, tail |-> 0, buffer |-> [i \in 0 .. Size - 1 |-> dflt]]

\* push, trivially copyable T: memcpy into buffer[head].
StoreTrivial(rb, value) == [rb EXCEPT !.buffer[rb.head] = value]

\* push that adds one to head and does not wrap it.
AdvanceHead_NotWrapping(rb) == [rb EXCEPT !.head = rb.head + 1]

\* clear() that also default-constructs every slot.
ClearRing_ErasingSlots(rb) == NewRing(rb.size, DefaultTimePoint)

\* push: head = wrap_index(head + 1).
AdvanceHead(rb) == [rb EXCEPT !.head = wrap_index(rb.size, rb.head + 1)]

\* push: if (head == tail) tail = wrap_index(tail + 1).
DropOldestIfFull(rb) ==
    IF rb.head = rb.tail THEN [rb EXCEPT !.tail = wrap_index(rb.size, rb.tail + 1)] ELSE rb

\* pop: tail = wrap_index(tail + 1).
AdvanceTail(rb) == [rb EXCEPT !.tail = wrap_index(rb.size, rb.tail + 1)]

\* push(value) of a trivially copyable T, as one thread runs it.
PushTrivial(rb, value) == DropOldestIfFull(AdvanceHead(StoreTrivial(rb, value)))

\* pop() that returns the value and leaves tail where it is.
PopTrivial_KeepingTail(rb) ==
    IF rb.head = rb.tail
    THEN [ret |-> <<>>, rb |-> rb]
    ELSE [ret |-> <<rb.buffer[rb.tail]>>, rb |-> rb]

\* pop(): what it returns (nullopt as <<>>, a value v as <<v>>) and the buffer after it.
PopTrivial(rb) ==
    IF rb.head = rb.tail
    THEN [ret |-> <<>>, rb |-> rb]
    ELSE [ret |-> <<rb.buffer[rb.tail]>>, rb |-> AdvanceTail(rb)]

\* clear(): head = 0, tail = 0.
ClearRing(rb) == [rb EXCEPT !.head = 0, !.tail = 0]

\* ------------------------------------------------------------ Audio_Segment

\* A float buffer is [id, data]: id names the allocation (the thread that made
\* it and its count there), data holds the samples. A float* is [id, off]: the
\* allocation it points into and the offset. An Audio_Segment is
\* [audio, midpoint, timestamp, size].
NullId == <<"null", 0>>
nullptr_audio == [id |-> NullId, data |-> <<>>]
nullptr_float == [id |-> NullId, off |-> 0]

\* std::make_unique<float[]>(n): n value-initialized floats.
make_unique(id, n) == [id |-> id, data |-> [i \in 1 .. n |-> 0]]

\* Audio_Segment().
Audio_Segment(now) ==
    [audio |-> nullptr_audio, midpoint |-> nullptr_float, timestamp |-> now, size |-> 0]

\* Audio_Segment(size_t size).
Audio_Segment_sized(size, id, now) ==
    [audio |-> make_unique(id, size), midpoint |-> [id |-> id, off |-> size \div 2],
     timestamp |-> now, size |-> size]

\* Audio_Segment(const Audio_Segment& other): std::copy reads other.size floats
\* from other.audio.get(), which is defined when there are none to read or
\* other owns that many.
CopyDefined(other) ==
    other.size = 0 \/ (other.audio.id # NullId /\ other.size <= Len(other.audio.data))
copy_construct(other, id) ==
    [audio |-> [id |-> id, data |-> [i \in 1 .. other.size |-> other.audio.data[i]]],
     midpoint |-> [id |-> id, off |-> other.size \div 2],
     timestamp |-> other.timestamp, size |-> other.size]

\* Audio_Segment(Audio_Segment&& other): the new segment, and other after it.
move_construct(other) ==
    [audio |-> other.audio, midpoint |-> other.midpoint,
     timestamp |-> other.timestamp, size |-> other.size]
moved_from(other) == [other EXCEPT !.audio = nullptr_audio]

\* swap(other), as operator=(Audio_Segment&&) runs it: audio, timestamp and size
\* are exchanged, midpoint is not. swap_this is *this after it, swap_other is other.
swap_this(this, other) ==
    [this EXCEPT !.audio = other.audio, !.timestamp = other.timestamp, !.size = other.size]
swap_other(this, other) ==
    [other EXCEPT !.audio = this.audio, !.timestamp = this.timestamp, !.size = this.size]

\* reset_audio(): a fresh buffer of the same size, midpoint recomputed.
reset_audio(seg, id) ==
    [seg EXCEPT !.audio = make_unique(id, seg.size),
                !.midpoint = [id |-> id, off |-> seg.size \div 2]]

\* lazy_initialize(size) for size > 0 (it throws INVALID_ARGUMENT for size 0).
lazy_initialize(seg, size, id, now) ==
    [audio |-> make_unique(id, size), midpoint |-> [id |-> id, off |-> size \div 2],
     timestamp |-> now, size |-> size]

get_audio(seg) == [id |-> seg.audio.id, off |-> 0]
get_midpoint(seg) == seg.midpoint

\* memcpy(dst, src, n floats) with dst a pointer into seg's buffer is defined
\* when dst points into the buffer seg owns and n floats fit after it, and src
\* holds n floats.
MemcpyDefined(seg, dst, src, n) ==
    /\ dst.id # NullId
    /\ dst.id = seg.audio.id
    /\ dst.off + n <= Len(seg.audio.data)
    /\ n <= Len(src)

\* seg after that memcpy.
Memcpy(seg, dst, src, n) ==
    [seg EXCEPT !.audio.data =
        [i \in 1 .. Len(seg.audio.data) |->
            IF dst.off < i /\ i <= dst.off + n THEN src[i - dst.off]
            ELSE seg.audio.data[i]]]

\* ------------------------------------------- Ring_Buffer<Audio_Segment, ...>

\* push: buffer[h].lazy_initialize(value.get_size()).
LazyInitSlot(rb, h, size, id, now) ==
    [rb EXCEPT !.buffer[h] = lazy_initialize(rb.buffer[h], size, id, now)]

\* push: buffer[h] = std::move(value), the buffer after it.
MoveAssignSlot(rb, h, value) == [rb EXCEPT !.buffer[h] = swap_this(rb.buffer[h], value)]

\* pop: T value = std::move(buffer[t]), the buffer after it.
MoveFromSlot(rb, t) == [rb EXCEPT !.buffer[t] = moved_from(rb.buffer[t])]

\* lazy_initialize that accepts every size.
lazy_initialize_accepting_zero(size) == FALSE

\* lazy_initialize(size) throws INVALID_ARGUMENT for size 0 (lines 105-106);
\* push calls it with value.get_size().
lazy_initialize_throws(size) == size = 0
PushThrows(seg) == lazy_initialize_throws(move_construct(seg).size)

\* push(std::move(seg)) as one thread runs it with no other thread on the
\* buffer, for a seg lazy_initialize accepts.
PushSegment(rb, seg, id, now) ==
    LET value == move_construct(seg)
        rb1 == LazyInitSlot(rb, rb.head, value.size, id, now)
        rb2 == MoveAssignSlot(rb1, rb.head, value)
    IN  DropOldestIfFull(AdvanceHead(rb2))

\* ------------------------------------------------- construction and start-up

SAMPLES_PER_HALF_SEGMENT == SAMPLES_PER_SEGMENT \div 2

\* No method of the engine has been called yet.
NoArg == [name |-> "none"]
NoCall ==
    [n |-> 0, op |-> "none", ret |-> "none", prev |-> [op |-> "none", ret |-> "none"],
     started |-> FALSE, arg |-> NoArg]

\* Script_Engine::Script_Engine().
EngineConstructed ==
    /\ speaker_diarization = FALSE
    /\ speech_recognition = FALSE
    /\ speaker_identification = FALSE
    /\ emotion_recognition = FALSE
    /\ running = FALSE
    /\ recording = FALSE
    /\ speakers = <<>>
    /\ audio_buffer = NewRing(AUDIO_BUFFER_SIZE, Audio_Segment(0))
    /\ call = NoCall

\* The locals of audio_recording_thread before its first statement. value is
\* the parameter of the push in progress, tail the copy of raw's tail that push
\* keeps in a register, allocs the buffers the thread has allocated, exc the
\* exception that ended the thread.
CapStart ==
    [pc |-> "init", audio_segment |-> Audio_Segment(0), err_on_last_iteration |-> FALSE,
     value |-> Audio_Segment(0), tail |-> 0, allocs |-> 0, exc |-> "none"]

\* The locals of audio_preprocessing_thread before its first statement.
StStart ==
    [pc |-> "init", full_audio_segment |-> Audio_Segment(0), first_segment |-> TRUE,
     current_timestamp |-> 0, last_timestamp |-> 0,
     latest_half_segment |-> Audio_Segment(0), tail |-> 0, allocs |-> 0, exc |-> "none"]

\* main() before the stages are dispatched: the raw buffer is constructed, the
\* stream is not started.
PipeConstructed ==
    /\ raw = NewRing(AUDIO_BUFFER_SIZE, Audio_Segment(0))
    /\ mutex = "free"
    /\ streaming = FALSE
    /\ clock = 0
    /\ cap = CapStart
    /\ st = StStart
    /\ reads = <<>>
    /\ pushes = <<>>
    /\ halves = <<>>
    /\ published = <<>>
    /\ ctl = [ops |-> 0, stops |-> 0, restarts |-> 0, boot |-> FALSE, bootPublished |-> FALSE]

\* No Ring_Buffer<time_point, false, Size> is in use.
TimePointRingUnused ==
    /\ tp_ring = NewRing(1, DefaultTimePoint)
    /\ tp_fresh = tp_ring
    /\ tp_pushed = <<>>
    /\ tp_popped = <<>>
    /\ tp_lastPop = "none"
    /\ tp_orderly = TRUE
    /\ tp_nvals = 0

\* No call of wrap_index on its own is under way.
WrapUnused ==
    /\ wrap_arg = 0
    /\ wrap_ret = <<>>

\* main() is not followed statement by statement.
NoException == [type |-> "none", status_code |-> "none"]
MainUnused ==
    /\ main_pc = "none"
    /\ tasks = <<>>
    /\ thrown = NoException
    /\ exit_status = -1

\* No Audio_Segment is used on its own.
NoSegCall(a, b) == [n |-> 0, op |-> "none", arg |-> 0, ret |-> "none", seg |-> a, made |-> b]
SegmentUnused ==
    /\ seg_obj = Audio_Segment(0)
    /\ seg_made = Audio_Segment(0)
    /\ seg_call = NoSegCall(seg_obj, seg_made)

\* ---------------------------------------------- single-thread ring buffer

InitRB ==
    /\ tp_ring \in {NewRing(n, DefaultTimePoint) : n \in 1 .. MaxSize}
    /\ tp_fresh = tp_ring
    /\ tp_pushed = <<>>
    /\ tp_popped = <<>>
    /\ tp_lastPop = "none"
    /\ tp_orderly = TRUE
    /\ tp_nvals = 0
    /\ EngineConstructed
    /\ PipeConstructed
    /\ WrapUnused
    /\ SegmentUnused
    /\ MainUnused

\* push(value): the value is the next one of the sequence 1, 2, 3, ...
RB_Push ==
    /\ tp_nvals < MaxPush
    /\ tp_ring' = PushTrivial(tp_ring, tp_nvals + 1)
    /\ tp_fresh' = PushTrivial(tp_fresh, tp_nvals + 1)
    /\ tp_nvals' = tp_nvals + 1
    /\ tp_pushed' = Append(tp_pushed, tp_nvals + 1)
    /\ tp_orderly' = (tp_orderly /\ tp_popped = <<>>)
    /\ tp_lastPop' = "none"
    /\ UNCHANGED <<tp_popped, engineVars, pipeVars, unitVars>>

RB_Pop ==
    LET r == PopTrivial(tp_ring) IN
    /\ tp_ring' = r.rb
    /\ tp_fresh' = PopTrivial(tp_fresh).rb
    /\ tp_popped' = tp_popped \o r.ret
    /\ tp_lastPop' = IF r.ret = <<>> THEN "nullopt" ELSE "value"
    /\ UNCHANGED <<tp_pushed, tp_orderly, tp_nvals, engineVars, pipeVars, unitVars>>

RB_Clear ==
    /\ tp_ring' = ClearRing(tp_ring)
    /\ tp_fresh' = NewRing(tp_ring.size, DefaultTimePoint)
    /\ tp_pushed' = <<>>
    /\ tp_popped' = <<>>
    /\ tp_lastPop' = "none"
    /\ tp_orderly' = TRUE
    /\ UNCHANGED <<tp_nvals, engineVars, pipeVars, unitVars>>

NextRB == RB_Push \/ RB_Pop \/ RB_Clear

SpecRB == InitRB /\ [][NextRB]_vars

\* ---------------------------------------------------- wrap_index on its own

InitWrap ==
    /\ wrap_arg \in 0 .. MaxIndex
    /\ wrap_ret = <<>>
    /\ TimePointRingUnused
    /\ EngineConstructed
    /\ PipeConstructed
    /\ SegmentUnused
    /\ MainUnused

\* wrap_index(index) of a Ring_Buffer whose Size is 16.
Wrap ==
    /\ wrap_ret = <<>>
    /\ wrap_ret' = <<wrap_index(Capacity, wrap_arg)>>
    /\ UNCHANGED <<wrap_arg, seg_obj, seg_made, seg_call, main_pc, tasks, thrown, exit_status, tpVars, engineVars, pipeVars>>

NextWrap == Wrap

SpecWrap == InitWrap /\ [][NextWrap]_vars

\* ------------------------------------------------ Audio_Segment on its own

\* The sample values written into a segment.
SampleValues == {1, 2}

\* The buffer the allocator hands out: the first one that is not live. A buffer
\* that was freed is handed out again.
FreshSamples(live) ==
    LET k == CHOOSE n \in 0 .. Cardinality(live) :
                /\ <<"seg", n>> \notin live
                /\ \A m \in 0 .. n - 1 : <<"seg", m>> \in live
    IN  <<"seg", k>>
LiveSamples == {seg_obj.audio.id, seg_made.audio.id} \ {NullId}

\* A segment as its constructors and a caller writing through get_audio()
\* leave it: default-constructed, or constructed with a size and filled.
SegmentValues ==
    {Audio_Segment(now) : now \in 0 .. MaxClock}
        \cup UNION {{Memcpy(Audio_Segment_sized(n, <<"seg", 0>>, now),
                            [id |-> <<"seg", 0>>, off |-> 0], d, n) :
                        now \in 0 .. MaxClock, d \in [1 .. n -> SampleValues]} :
                    n \in 0 .. MaxLen}

InitSegment ==
    /\ seg_obj \in SegmentValues
    /\ seg_made = Audio_Segment(0)
    /\ seg_call = NoSegCall(seg_obj, seg_made)
    /\ WrapUnused
    /\ MainUnused
    /\ TimePointRingUnused
    /\ EngineConstructed
    /\ PipeConstructed

\* The record of an operation that ran on seg_obj and seg_made as they are now.
SegCalled(op, arg, ret) ==
    [n |-> seg_call.n + 1, op |-> op, arg |-> arg, ret |-> ret,
     seg |-> seg_obj, made |-> seg_made]
SegCallable == seg_call.n < MaxSegOps /\ seg_call.ret # "ub"

\* seg_obj.lazy_initialize(size).
Seg_LazyInitialize ==
    /\ SegCallable
    /\ \E size \in 0 .. MaxLen, now \in 0 .. MaxClock :
        IF lazy_initialize_throws(size)
        THEN /\ seg_call' = SegCalled("lazy_initialize", size, "INVALID_ARGUMENT")
             /\ UNCHANGED seg_obj
        ELSE /\ seg_obj' = lazy_initialize(seg_obj, size, FreshSamples(LiveSamples), now)
             /\ seg_call' = SegCalled("lazy_initialize", size, "void")
    /\ UNCHANGED <<seg_made, wrap_arg, wrap_ret, main_pc, tasks, thrown, exit_status, tpVars, engineVars, pipeVars>>

\* seg_obj.reset_audio().
Seg_ResetAudio ==
    /\ SegCallable
    /\ seg_obj' = reset_audio(seg_obj, FreshSamples(LiveSamples))
    /\ seg_call' = SegCalled("reset_audio", 0, "void")
    /\ UNCHANGED <<seg_made, wrap_arg, wrap_ret, main_pc, tasks, thrown, exit_status, tpVars, engineVars, pipeVars>>

\* Audio_Segment seg_made(seg_obj).
Seg_CopyConstruct ==
    /\ SegCallable
    /\ IF CopyDefined(seg_obj)
       THEN /\ seg_made' = copy_construct(seg_obj,
                                FreshSamples({seg_obj.audio.id} \ {NullId}))
            /\ seg_call' = SegCalled("copy_construct", 0, "void")
       ELSE /\ seg_call' = SegCalled("copy_construct", 0, "ub")
            /\ UNCHANGED seg_made
    /\ UNCHANGED <<seg_obj, wrap_arg, wrap_ret, main_pc, tasks, thrown, exit_status, tpVars, engineVars, pipeVars>>

\* Audio_Segment seg_made(std::move(seg_obj)).
Seg_MoveConstruct ==
    /\ SegCallable
    /\ seg_made' = move_construct(seg_obj)
    /\ seg_obj' = moved_from(seg_obj)
    /\ seg_call' = SegCalled("move_construct", 0, "void")
    /\ UNCHANGED <<wrap_arg, wrap_ret, main_pc, tasks, thrown, exit_status, tpVars, engineVars, pipeVars>>

\* seg_made = seg_obj: a temporary copy of seg_obj is swapped with seg_made and
\* destroyed.
Seg_CopyAssign ==
    /\ SegCallable
    /\ IF CopyDefined(seg_obj)
       THEN /\ seg_made' = swap_this(seg_made,
                                copy_construct(seg_obj, FreshSamples(LiveSamples)))
            /\ seg_call' = SegCalled("copy_assign", 0, "void")
       ELSE /\ seg_call' = SegCalled("copy_assign", 0, "ub")
            /\ UNCHANGED seg_made
    /\ UNCHANGED <<seg_obj, wrap_arg, wrap_ret, main_pc, tasks, thrown, exit_status, tpVars, engineVars, pipeVars>>

\* seg_made = std::move(seg_obj).
Seg_MoveAssign ==
    /\ SegCallable
    /\ seg_made' = swap_this(seg_made, seg_obj)
    /\ seg_obj' = swap_other(seg_made, seg_obj)
    /\ seg_call' = SegCalled("move_assign", 0, "void")
    /\ UNCHANGED <<wrap_arg, wrap_ret, main_pc, tasks, thrown, exit_status, tpVars, engineVars, pipeVars>>

NextSegment ==
    \/ Seg_LazyInitialize \/ Seg_ResetAudio
    \/ Seg_CopyConstruct \/ Seg_MoveConstruct
    \/ Seg_CopyAssign \/ Seg_MoveAssign

SpecSegment == InitSegment /\ [][NextSegment]_vars

\* The last n elements of a sequence (all of it when it is shorter).
LastN(s, n) == IF Len(s) <= n THEN s ELSE SubSeq(s, Len(s) - n + 1, Len(s))

\* The run so far is N pushes on an empty buffer followed by pops until empty.
PushedThenDrained == tp_orderly /\ tp_lastPop = "nullopt"

\* C1: N <= Size pushes on an empty buffer followed by pops until empty return
\* exactly the N pushed values in push order (N = Size included).
C1_PushPopUpToCapacity ==
    (PushedThenDrained /\ Len(tp_pushed) <= tp_ring.size) => tp_popped = tp_pushed

\* C2: N > Size pushes on an empty buffer followed by pops until empty return
\* exactly the last Size pushed values, oldest of those first.
C2_OverflowKeepsLastCapacity ==
    (PushedThenDrained /\ Len(tp_pushed) > tp_ring.size)
        => tp_popped = LastN(tp_pushed, tp_ring.size)

\* What the code does in both cases: one slot is never readable, so the pops
\* return the last Size - 1 pushed values.
RB_DrainReturnsLastSizeMinusOne ==
    PushedThenDrained => tp_popped = LastN(tp_pushed, tp_ring.size - 1)

\* ------------------------------------------------------------------ Audio_tsrt

\* start_stream(), stop_stream(), read_audio_segment(): SUCCESS when PortAudio
\* reports paNoError, else a Tsrt_Exception with the given code is thrown.
AudioCall(pa, code) ==
    IF pa = "paNoError"
    THEN [thrown |-> FALSE, status |-> "SUCCESS"]
    ELSE [thrown |-> TRUE, status |-> code]
start_stream(pa) == AudioCall(pa, "RUNTIME_ERROR")
stop_stream(pa) == AudioCall(pa, "RUNTIME_ERROR")
read_audio_segment(pa) == AudioCall(pa, "IO_ERROR")

\* preprocess_audio_segment(): SUCCESS, or handle_ffmpeg_errors throws.
preprocess_audio_segment(ret) ==
    IF ret >= 0
    THEN [thrown |-> FALSE, status |-> "SUCCESS"]
    ELSE [thrown |-> TRUE, status |-> "RUNTIME_ERROR"]

PaResults == {"paNoError", "paError"}

\* What av_buffersrc_add_frame_flags returns: 0, or a negative error code.
FilterResults == {0, -1}

\* The samples of the k-th half-window the audio source delivers.
Chunk(k) ==
    [j \in 1 .. SAMPLES_PER_HALF_SEGMENT |-> (k - 1) * SAMPLES_PER_HALF_SEGMENT + j]

\* The id of the next buffer a thread allocates.
NextAlloc(thread, locals) == <<thread, locals.allocs + 1>>

\* ---------------------------------------------------- audio_recording_thread

\* A status other than SUCCESS: throw on the second in a row, else log, set
\* err_on_last_iteration and continue at `again`.
CaptureOnError(c, again) ==
    IF c.err_on_last_iteration
    THEN [c EXCEPT !.pc = "threw", !.exc = "IO_ERROR"]
    ELSE [c EXCEPT !.err_on_last_iteration = TRUE, !.pc = again]

\* A call of Audio_tsrt that threw ends the thread with that exception.
CaptureThrew(c, r) == [c EXCEPT !.pc = "threw", !.exc = r.status]

\* Lines 34-35: Audio_Segment audio_segment; lazy_initialize(SAMPLES_PER_HALF_SEGMENT).
Capture_Init ==
    /\ cap.pc = "init"
    /\ cap' = [cap EXCEPT
                !.audio_segment = lazy_initialize(Audio_Segment(clock),
                    SAMPLES_PER_HALF_SEGMENT, NextAlloc("cap", cap), clock),
                !.allocs = @ + 1,
                !.pc = "loop"]
    /\ UNCHANGED <<raw, mutex, streaming, clock, st, reads, pushes, halves, published, ctl>>
    /\ UNCHANGED <<tpVars, unitVars, engineVars>>

\* Line 37: while (engine.is_running()).
Capture_Loop ==
    /\ cap.pc = "loop"
    /\ cap' = [cap EXCEPT !.pc = IF running THEN "wait" ELSE "done"]
    /\ UNCHANGED <<raw, mutex, streaming, clock, st, reads, pushes, halves, published, ctl>>
    /\ UNCHANGED <<tpVars, unitVars, engineVars>>

\* A turn of while (!engine.is_recording()) that only sleeps.
Capture_Idle_KeepingStream ==
    /\ cap.pc = "wait"
    /\ ~recording
    /\ UNCHANGED <<cap, streaming>>
    /\ UNCHANGED <<raw, mutex, clock, st, reads, pushes, halves, published, ctl>>
    /\ UNCHANGED <<tpVars, unitVars, engineVars>>

\* Lines 38-50: one turn of while (!engine.is_recording()): stop the stream if
\* it is active, sleep.
Capture_Idle ==
    /\ cap.pc = "wait"
    /\ ~recording
    /\ \E pa \in PaResults :
        LET r == stop_stream(pa) IN
        IF ~streaming THEN UNCHANGED <<cap, streaming>>
        ELSE IF r.thrown THEN cap' = CaptureThrew(cap, r) /\ UNCHANGED streaming
        ELSE IF r.status # "SUCCESS"
             THEN cap' = CaptureOnError(cap, "wait") /\ UNCHANGED streaming
        ELSE streaming' = FALSE /\ UNCHANGED cap
    /\ UNCHANGED <<raw, mutex, clock, st, reads, pushes, halves, published, ctl>>
    /\ UNCHANGED <<tpVars, unitVars, engineVars>>

\* Line 38 with recording set, lines 52-61: start the stream if it is not active.
Capture_Start ==
    /\ cap.pc = "wait"
    /\ recording
    /\ \E pa \in PaResults :
        LET r == start_stream(pa) IN
        IF streaming THEN cap' = [cap EXCEPT !.pc = "read"] /\ UNCHANGED streaming
        ELSE IF r.thrown THEN cap' = CaptureThrew(cap, r) /\ UNCHANGED streaming
        ELSE IF r.status # "SUCCESS"
             THEN cap' = CaptureOnError(cap, "loop") /\ UNCHANGED streaming
        ELSE streaming' = TRUE /\ cap' = [cap EXCEPT !.pc = "read"]
    /\ UNCHANGED <<raw, mutex, clock, st, reads, pushes, halves, published, ctl>>
    /\ UNCHANGED <<tpVars, unitVars, engineVars>>

\* The statement of line 72, audio_segment.get_timestamp() = now(): it assigns
\* to the copy get_timestamp() returns, the segment is as before.
AssignToReturnedTimestamp(seg, now) == seg

\* Lines 63-72: read a half-window into audio_segment, then line 72.
Capture_Read ==
    /\ cap.pc = "read"
    /\ \E pa \in PaResults :
        LET r == read_audio_segment(pa)
            k == Len(reads) + 1
            dst == get_audio(cap.audio_segment)
        IN
        IF r.thrown THEN cap' = CaptureThrew(cap, r) /\ UNCHANGED reads
        ELSE IF r.status # "SUCCESS"
             THEN cap' = CaptureOnError(cap, "loop") /\ UNCHANGED reads
        ELSE IF ~MemcpyDefined(cap.audio_segment, dst, Chunk(k), SAMPLES_PER_HALF_SEGMENT)
             THEN cap' = [cap EXCEPT !.pc = "ub"] /\ UNCHANGED reads
        ELSE /\ k <= MaxReads
             /\ cap' = [cap EXCEPT
                    !.audio_segment = AssignToReturnedTimestamp(
                        Memcpy(@, dst, Chunk(k), SAMPLES_PER_HALF_SEGMENT), clock),
                    !.pc = "push_lock"]
             /\ reads' = Append(reads,
                    [at |-> clock, stops |-> ctl.stops, restarts |-> ctl.restarts])
    /\ UNCHANGED <<raw, mutex, streaming, clock, st, pushes, halves, published, ctl>>
    /\ UNCHANGED <<tpVars, unitVars, engineVars>>

\* Line 74, shared_audio_ring_buffer.push(std::move(audio_segment)), statement
\* by statement. Ring_Buffer::push line 93: the lock_guard is the whole body of
\* the `if constexpr`, so it is constructed here ...
Capture_PushLock ==
    /\ cap.pc = "push_lock"
    /\ mutex = "free"
    /\ mutex' = "cap"
    /\ cap' = [cap EXCEPT !.value = move_construct(cap.audio_segment),
                          !.audio_segment = moved_from(cap.audio_segment),
                          !.pc = "push_unlock"]
    /\ pushes' = Append(pushes, Len(reads))
    /\ UNCHANGED <<raw, streaming, clock, st, reads, halves, published, ctl>>
    /\ UNCHANGED <<tpVars, unitVars, engineVars>>

\* ... and destroyed at the end of that statement.
Capture_PushUnlock ==
    /\ cap.pc = "push_unlock"
    /\ mutex' = "free"
    /\ cap' = [cap EXCEPT !.pc = "push_init"]
    /\ UNCHANGED <<raw, streaming, clock, st, reads, pushes, halves, published, ctl>>
    /\ UNCHANGED <<tpVars, unitVars, engineVars>>

\* Ring_Buffer::push line 98: buffer[head].lazy_initialize(value.get_size()).
Capture_PushInit ==
    /\ cap.pc = "push_init"
    /\ raw' = LazyInitSlot(raw, raw.head, cap.value.size, NextAlloc("cap", cap), clock)
    /\ cap' = [cap EXCEPT !.allocs = @ + 1, !.pc = "push_assign"]
    /\ UNCHANGED <<mutex, streaming, clock, st, reads, pushes, halves, published, ctl>>
    /\ UNCHANGED <<tpVars, unitVars, engineVars>>

\* Ring_Buffer::push line 103: buffer[head] = std::move(value).
Capture_PushAssign ==
    /\ cap.pc = "push_assign"
    /\ raw' = MoveAssignSlot(raw, raw.head, cap.value)
    /\ cap' = [cap EXCEPT !.value = swap_other(raw.buffer[raw.head], cap.value),
                          !.pc = "push_head"]
    /\ UNCHANGED <<mutex, streaming, clock, st, reads, pushes, halves, published, ctl>>
    /\ UNCHANGED <<tpVars, unitVars, engineVars>>

\* Ring_Buffer::push line 105: head = wrap_index(head + 1).
Capture_PushHead ==
    /\ cap.pc = "push_head"
    /\ raw' = AdvanceHead(raw)
    /\ cap' = [cap EXCEPT !.pc = "push_full"]
    /\ UNCHANGED <<mutex, streaming, clock, st, reads, pushes, halves, published, ctl>>
    /\ UNCHANGED <<tpVars, unitVars, engineVars>>

\* Ring_Buffer::push line 106: if (head == tail). tail is read here; push
\* returns when they differ, and value is destroyed.
Capture_PushFull ==
    /\ cap.pc = "push_full"
    /\ cap' = IF raw.head = raw.tail
              THEN [cap EXCEPT !.tail = raw.tail, !.pc = "push_tail"]
              ELSE [cap EXCEPT !.value = Audio_Segment(0), !.pc = "reset"]
    /\ UNCHANGED <<raw, mutex, streaming, clock, st, reads, pushes, halves, published, ctl>>
    /\ UNCHANGED <<tpVars, unitVars, engineVars>>

\* Ring_Buffer::push line 107: tail = wrap_index(tail + 1). No lock orders this
\* with the other thread's writes of tail, so the tail it adds one to is the one
\* read at line 106 or the one now in memory.
Capture_PushTail ==
    /\ cap.pc = "push_tail"
    /\ \E t \in {cap.tail, raw.tail} :
        raw' = [raw EXCEPT !.tail = wrap_index(raw.size, t + 1)]
    /\ cap' = [cap EXCEPT !.value = Audio_Segment(0), !.tail = 0, !.pc = "reset"]
    /\ UNCHANGED <<mutex, streaming, clock, st, reads, pushes, halves, published, ctl>>
    /\ UNCHANGED <<tpVars, unitVars, engineVars>>

\* Lines 76-79: audio_segment.reset_audio(); err_on_last_iteration = false.
Capture_Reset ==
    /\ cap.pc = "reset"
    /\ cap' = [cap EXCEPT !.audio_segment = reset_audio(@, NextAlloc("cap", cap)),
                          !.allocs = @ + 1,
                          !.err_on_last_iteration = FALSE,
                          !.pc = "loop"]
    /\ UNCHANGED <<raw, mutex, streaming, clock, st, reads, pushes, halves, published, ctl>>
    /\ UNCHANGED <<tpVars, unitVars, engineVars>>

Capture ==
    \/ Capture_Init \/ Capture_Loop \/ Capture_Idle \/ Capture_Start \/ Capture_Read
    \/ Capture_PushLock \/ Capture_PushUnlock \/ Capture_PushInit \/ Capture_PushAssign
    \/ Capture_PushHead \/ Capture_PushFull \/ Capture_PushTail \/ Capture_Reset

\* ------------------------------------------------- audio_preprocessing_thread

\* Lines 113-118: full_audio_segment.lazy_initialize(SAMPLES_PER_SEGMENT);
\* current_timestamp and last_timestamp are set to now().
Stitch_Init ==
    /\ st.pc = "init"
    /\ st' = [st EXCEPT
                !.full_audio_segment = lazy_initialize(Audio_Segment(clock),
                    SAMPLES_PER_SEGMENT, NextAlloc("st", st), clock),
                !.allocs = @ + 1,
                !.current_timestamp = clock,
                !.last_timestamp = clock,
                !.pc = "loop"]
    /\ UNCHANGED <<raw, mutex, streaming, clock, cap, reads, pushes, halves, published, ctl>>
    /\ UNCHANGED <<tpVars, unitVars, engineVars>>

\* Line 120: while (engine.is_running()).
Stitch_Loop ==
    /\ st.pc = "loop"
    /\ st' = [st EXCEPT !.pc = IF running THEN "wait" ELSE "done"]
    /\ UNCHANGED <<raw, mutex, streaming, clock, cap, reads, pushes, halves, published, ctl>>
    /\ UNCHANGED <<tpVars, unitVars, engineVars>>

\* The stitching stage going on to pop() whatever recording is.
Stitch_Wait_IgnoringRecording ==
    /\ st.pc = "wait"
    /\ st' = [st EXCEPT !.pc = "pop_lock"]
    /\ UNCHANGED <<raw, mutex, streaming, clock, cap, reads, pushes, halves, published, ctl>>
    /\ UNCHANGED <<tpVars, unitVars, engineVars>>

\* Lines 121-123: while (!engine.is_recording()) sleep.
Stitch_Wait ==
    /\ st.pc = "wait"
    /\ st' = [st EXCEPT !.pc = IF recording THEN "pop_lock" ELSE "wait"]
    /\ UNCHANGED <<raw, mutex, streaming, clock, cap, reads, pushes, halves, published, ctl>>
    /\ UNCHANGED <<tpVars, unitVars, engineVars>>

\* Line 126, shared_audio_ring_buffer.pop(), statement by statement.
\* Ring_Buffer::pop line 117: the lock_guard is constructed ...
Stitch_PopLock ==
    /\ st.pc = "pop_lock"
    /\ mutex = "free"
    /\ mutex' = "st"
    /\ st' = [st EXCEPT !.pc = "pop_unlock"]
    /\ UNCHANGED <<raw, streaming, clock, cap, reads, pushes, halves, published, ctl>>
    /\ UNCHANGED <<tpVars, unitVars, engineVars>>

\* ... and destroyed at the end of the `if constexpr` statement.
Stitch_PopUnlock ==
    /\ st.pc = "pop_unlock"
    /\ mutex' = "free"
    /\ st' = [st EXCEPT !.pc = "pop_empty"]
    /\ UNCHANGED <<raw, streaming, clock, cap, reads, pushes, halves, published, ctl>>
    /\ UNCHANGED <<tpVars, unitVars, engineVars>>

\* Ring_Buffer::pop lines 119-120: if (head == tail) return nullopt; then
\* lines 127-130 of the thread: sleep and continue. tail is read here.
Stitch_PopEmpty ==
    /\ st.pc = "pop_empty"
    /\ st' = IF raw.head = raw.tail
             THEN [st EXCEPT !.pc = "loop"]
             ELSE [st EXCEPT !.tail = raw.tail, !.pc = "pop_move"]
    /\ UNCHANGED <<raw, mutex, streaming, clock, cap, reads, pushes, halves, published, ctl>>
    /\ UNCHANGED <<tpVars, unitVars, engineVars>>

\* Ring_Buffer::pop line 122: T value = std::move(buffer[tail]), the first
\* member initializer of the move constructor, audio(std::move(other.audio)):
\* the pointer the slot holds is read. No lock orders this with the other
\* thread's writes of tail, so the index is the tail read at line 119 or the one
\* now in memory.
Stitch_PopMove ==
    /\ st.pc = "pop_move"
    /\ \E t \in {st.tail, raw.tail} :
        st' = [st EXCEPT !.latest_half_segment =
                            [Audio_Segment(0) EXCEPT !.audio = raw.buffer[t].audio],
                         !.tail = t,
                         !.pc = "pop_release"]
    /\ UNCHANGED <<raw, mutex, streaming, clock, cap, reads, pushes, halves, published, ctl>>
    /\ UNCHANGED <<tpVars, unitVars, engineVars>>

\* ... and the rest of that move construction: the slot's pointer is set to
\* null, then midpoint, timestamp and size are read from the slot as the other
\* thread has left it by now.
Stitch_PopRelease ==
    /\ st.pc = "pop_release"
    /\ raw' = MoveFromSlot(raw, st.tail)
    /\ st' = [st EXCEPT !.latest_half_segment =
                            [move_construct(raw.buffer[st.tail])
                                EXCEPT !.audio = st.latest_half_segment.audio],
                        !.pc = "pop_tail"]
    /\ UNCHANGED <<mutex, streaming, clock, cap, reads, pushes, halves, published, ctl>>
    /\ UNCHANGED <<tpVars, unitVars, engineVars>>

\* Ring_Buffer::pop lines 123-124: tail = wrap_index(tail + 1); return value.
\* The tail it adds one to is again the one read before or the one in memory.
Stitch_PopTail ==
    /\ st.pc = "pop_tail"
    /\ \E t \in {st.tail, raw.tail} :
        raw' = [raw EXCEPT !.tail = wrap_index(raw.size, t + 1)]
    /\ st' = [st EXCEPT !.tail = 0, !.pc = "process"]
    /\ halves' = Append(halves, st.latest_half_segment)
    /\ UNCHANGED <<mutex, streaming, clock, cap, reads, pushes, published, ctl>>
    /\ UNCHANGED <<tpVars, unitVars, engineVars>>

\* The popped half-window holds SAMPLES_PER_HALF_SEGMENT floats that
\* preprocess_audio_segment and memcpy can read.
HalfReadable(seg) ==
    seg.audio.id # NullId /\ Len(seg.audio.data) >= SAMPLES_PER_HALF_SEGMENT

set_timestamp(seg, timestamp) == [seg EXCEPT !.timestamp = timestamp]

\* Lines 143 and 158 with get_midpoint() in the place of get_audio().
CopyToFirstHalf_AtMidpoint(full, half) ==
    Memcpy(full, get_midpoint(full), half.audio.data, SAMPLES_PER_HALF_SEGMENT)

\* Line 143 and line 158: memcpy(full_audio_segment.get_audio(), half, ...).
CopyToFirstHalf(full, half) ==
    Memcpy(full, get_audio(full), half.audio.data, SAMPLES_PER_HALF_SEGMENT)
FirstHalfDefined(full, half) ==
    MemcpyDefined(full, get_audio(full), half.audio.data, SAMPLES_PER_HALF_SEGMENT)

\* Line 149 with get_audio() in the place of get_midpoint().
CopyToSecondHalf_OverFirstHalf(full, half) ==
    Memcpy(full, get_audio(full), half.audio.data, SAMPLES_PER_HALF_SEGMENT)

\* Line 149: memcpy(full_audio_segment.get_midpoint(), half, ...).
CopyToSecondHalf(full, half) ==
    Memcpy(full, get_midpoint(full), half.audio.data, SAMPLES_PER_HALF_SEGMENT)
SecondHalfDefined(full, half) ==
    MemcpyDefined(full, get_midpoint(full), half.audio.data, SAMPLES_PER_HALF_SEGMENT)

\* Lines 151-152: the timestamp the finished window gets, and last_timestamp after it.
WindowTimestamp(locals) == locals.last_timestamp
NextLastTimestamp(locals, current) == current

\* Lines 132-139 on a half-window the filter cannot read: the pop returned a
\* slot that was moved from or never filled, and get_audio() is null or short.
Stitch_Unreadable ==
    /\ st.pc = "process"
    /\ ~HalfReadable(st.latest_half_segment)
    /\ st' = [st EXCEPT !.pc = "ub"]
    /\ UNCHANGED <<raw, mutex, streaming, clock, cap, reads, pushes, halves, published, ctl>>
    /\ UNCHANGED <<tpVars, unitVars, engineVars>>

\* Lines 132-139 with the status test of line 138 placed after the copy of
\* line 158.
Stitch_FilterFailed_AfterCopy ==
    /\ st.pc = "process"
    /\ HalfReadable(st.latest_half_segment)
    /\ \E ret \in FilterResults :
        LET r == preprocess_audio_segment(ret) IN
        /\ r.thrown
        /\ st' = [st EXCEPT !.current_timestamp = st.latest_half_segment.timestamp,
                            !.full_audio_segment =
                                IF FirstHalfDefined(@, st.latest_half_segment)
                                THEN CopyToFirstHalf(@, st.latest_half_segment)
                                ELSE @,
                            !.latest_half_segment = Audio_Segment(0),
                            !.exc = r.status,
                            !.pc = "threw"]
    /\ UNCHANGED <<raw, mutex, streaming, clock, cap, reads, pushes, halves, published, ctl>>
    /\ UNCHANGED <<tpVars, unitVars, engineVars>>

\* Lines 132-139 when the filter fails: preprocess_audio_segment throws.
Stitch_FilterFailed ==
    /\ st.pc = "process"
    /\ HalfReadable(st.latest_half_segment)
    /\ \E ret \in FilterResults :
        LET r == preprocess_audio_segment(ret) IN
        /\ r.thrown
        /\ st' = [st EXCEPT !.current_timestamp = st.latest_half_segment.timestamp,
                            !.latest_half_segment = Audio_Segment(0),
                            !.exc = r.status,
                            !.pc = "threw"]
    /\ UNCHANGED <<raw, mutex, streaming, clock, cap, reads, pushes, halves, published, ctl>>
    /\ UNCHANGED <<tpVars, unitVars, engineVars>>

\* Lines 132-146 on the first half-window: copy it to the first half, continue.
Stitch_Bootstrap ==
    /\ st.pc = "process"
    /\ HalfReadable(st.latest_half_segment)
    /\ st.first_segment
    /\ \E ret \in FilterResults : ~preprocess_audio_segment(ret).thrown
    /\ LET half == st.latest_half_segment IN
       st' = IF ~FirstHalfDefined(st.full_audio_segment, half)
             THEN [st EXCEPT !.pc = "ub"]
             ELSE [st EXCEPT
                    !.current_timestamp = half.timestamp,
                    !.full_audio_segment = CopyToFirstHalf(@, half),
                    !.first_segment = FALSE,
                    !.latest_half_segment = Audio_Segment(0),
                    !.pc = "loop"]
    /\ ctl' = [ctl EXCEPT !.boot = FALSE]
    /\ UNCHANGED <<raw, mutex, streaming, clock, cap, reads, pushes, halves, published>>
    /\ UNCHANGED <<tpVars, unitVars, engineVars>>

\* Lines 132-158 on a later half-window: complete the window, stamp it, move it
\* into the engine's audio_buffer (Script_Engine::push_to_audio_buffer), reset
\* the accumulator and copy the half-window to its first half.
Stitch_Publish ==
    /\ st.pc = "process"
    /\ HalfReadable(st.latest_half_segment)
    /\ ~st.first_segment
    /\ \E ret \in FilterResults : ~preprocess_audio_segment(ret).thrown
    /\ LET half == st.latest_half_segment
           done == set_timestamp(CopyToSecondHalf(st.full_audio_segment, half),
                                 WindowTimestamp(st))
           stored == PushSegment(audio_buffer, done, <<"st", st.allocs + 1>>, clock)
           fresh == reset_audio(moved_from(done), <<"st", st.allocs + 2>>)
       IN
       IF ~SecondHalfDefined(st.full_audio_segment, half) \/ ~FirstHalfDefined(fresh, half)
       THEN st' = [st EXCEPT !.pc = "ub"] /\ UNCHANGED <<audio_buffer, published, ctl>>
       ELSE /\ audio_buffer' = stored
            /\ ctl' = [ctl EXCEPT !.boot = FALSE, !.bootPublished = @ \/ ctl.boot]
            /\ published' = Append(published, stored.buffer[audio_buffer.head])
            /\ st' = [st EXCEPT
                    !.current_timestamp = half.timestamp,
                    !.last_timestamp = NextLastTimestamp(st, half.timestamp),
                    !.full_audio_segment = CopyToFirstHalf(fresh, half),
                    !.allocs = @ + 2,
                    !.latest_half_segment = Audio_Segment(0),
                    !.pc = "loop"]
    /\ UNCHANGED <<raw, mutex, streaming, clock, cap, reads, pushes, halves>>
    /\ UNCHANGED <<tpVars, unitVars, flagVars, running, recording, speakers, call>>

Stitch ==
    \/ Stitch_Init \/ Stitch_Loop \/ Stitch_Wait
    \/ Stitch_PopLock \/ Stitch_PopUnlock \/ Stitch_PopEmpty \/ Stitch_PopMove
    \/ Stitch_PopRelease \/ Stitch_PopTail
    \/ Stitch_Unreadable \/ Stitch_FilterFailed \/ Stitch_Bootstrap \/ Stitch_Publish

\* ------------------------------------------------- Script_Engine, run control

\* The record of a call of method op that returned ret.
Called(op, ret) ==
    [n |-> call.n + 1, op |-> op, ret |-> ret, prev |-> [op |-> call.op, ret |-> call.ret],
     started |-> call.started \/ call.op = "start_engine", arg |-> NoArg]

\* The same for a method called with arguments.
CalledWith(op, arg, ret) == [Called(op, ret) EXCEPT !.arg = arg]

\* start_engine(), stop_engine(), start_recording(), stop_recording(): the
\* engine after the call.
start_engine ==
    /\ running' = TRUE
    /\ call' = Called("start_engine", "void")
    /\ UNCHANGED <<flagVars, recording, speakers, audio_buffer>>

\* stop_engine() that also clears the feature flags.
stop_engine_clearing_flags ==
    /\ running' = FALSE
    /\ speaker_diarization' = FALSE
    /\ speech_recognition' = FALSE
    /\ speaker_identification' = FALSE
    /\ emotion_recognition' = FALSE
    /\ call' = Called("stop_engine", "void")
    /\ UNCHANGED <<recording, speakers, audio_buffer>>

stop_engine ==
    /\ running' = FALSE
    /\ call' = Called("stop_engine", "void")
    /\ UNCHANGED <<flagVars, recording, speakers, audio_buffer>>

\* start_recording() that also starts the engine.
start_recording_starting_engine ==
    /\ recording' = TRUE
    /\ running' = TRUE
    /\ call' = Called("start_recording", "void")
    /\ UNCHANGED <<flagVars, speakers, audio_buffer>>

start_recording ==
    /\ recording' = TRUE
    /\ call' = Called("start_recording", "void")
    /\ UNCHANGED <<flagVars, running, speakers, audio_buffer>>

stop_recording ==
    /\ recording' = FALSE
    /\ call' = Called("stop_recording", "void")
    /\ UNCHANGED <<flagVars, running, speakers, audio_buffer>>

\* enable_speaker_diarization() with the test of running left out.
enable_speaker_diarization_ignoring_running ==
    /\ IF speaker_diarization
       THEN /\ call' = Called("enable_speaker_diarization", "INVALID_OPERATION")
            /\ UNCHANGED speaker_diarization
       ELSE /\ speaker_diarization' = TRUE
            /\ call' = Called("enable_speaker_diarization", "SUCCESS")
    /\ UNCHANGED <<speech_recognition, speaker_identification, emotion_recognition,
                   running, recording, speakers, audio_buffer>>

\* enable_speaker_diarization() refusing only when the flag is set and the
\* engine is running.
enable_speaker_diarization_refusing_on_both ==
    /\ IF speaker_diarization /\ running
       THEN /\ call' = Called("enable_speaker_diarization", "INVALID_OPERATION")
            /\ UNCHANGED speaker_diarization
       ELSE /\ speaker_diarization' = TRUE
            /\ call' = Called("enable_speaker_diarization", "SUCCESS")
    /\ UNCHANGED <<speech_recognition, speaker_identification, emotion_recognition,
                   running, recording, speakers, audio_buffer>>

\* enable_speaker_diarization() and its three siblings.
enable_speaker_diarization ==
    /\ IF speaker_diarization \/ running
       THEN /\ call' = Called("enable_speaker_diarization", "INVALID_OPERATION")
            /\ UNCHANGED speaker_diarization
       ELSE /\ speaker_diarization' = TRUE
            /\ call' = Called("enable_speaker_diarization", "SUCCESS")
    /\ UNCHANGED <<speech_recognition, speaker_identification, emotion_recognition,
                   running, recording, speakers, audio_buffer>>

\* enable_speech_recognition() that stops the recording when it refuses.
enable_speech_recognition_stopping_recording ==
    /\ IF speech_recognition \/ running
       THEN /\ call' = Called("enable_speech_recognition", "INVALID_OPERATION")
            /\ recording' = FALSE
            /\ UNCHANGED speech_recognition
       ELSE /\ speech_recognition' = TRUE
            /\ call' = Called("enable_speech_recognition", "SUCCESS")
            /\ UNCHANGED recording
    /\ UNCHANGED <<speaker_diarization, speaker_identification, emotion_recognition,
                   running, speakers, audio_buffer>>

enable_speech_recognition ==
    /\ IF speech_recognition \/ running
       THEN /\ call' = Called("enable_speech_recognition", "INVALID_OPERATION")
            /\ UNCHANGED speech_recognition
       ELSE /\ speech_recognition' = TRUE
            /\ call' = Called("enable_speech_recognition", "SUCCESS")
    /\ UNCHANGED <<speaker_diarization, speaker_identification, emotion_recognition,
                   running, recording, speakers, audio_buffer>>

enable_speaker_identification ==
    /\ IF speaker_identification \/ running
       THEN /\ call' = Called("enable_speaker_identification", "INVALID_OPERATION")
            /\ UNCHANGED speaker_identification
       ELSE /\ speaker_identification' = TRUE
            /\ call' = Called("enable_speaker_identification", "SUCCESS")
    /\ UNCHANGED <<speaker_diarization, speech_recognition, emotion_recognition,
                   running, recording, speakers, audio_buffer>>

\* enable_emotion_recognition() with the test of running left out.
enable_emotion_recognition_ignoring_running ==
    /\ IF emotion_recognition
       THEN /\ call' = Called("enable_emotion_recognition", "INVALID_OPERATION")
            /\ UNCHANGED emotion_recognition
       ELSE /\ emotion_recognition' = TRUE
            /\ call' = Called("enable_emotion_recognition", "SUCCESS")
    /\ UNCHANGED <<speaker_diarization, speech_recognition, speaker_identification,
                   running, recording, speakers, audio_buffer>>

enable_emotion_recognition ==
    /\ IF emotion_recognition \/ running
       THEN /\ call' = Called("enable_emotion_recognition", "INVALID_OPERATION")
            /\ UNCHANGED emotion_recognition
       ELSE /\ emotion_recognition' = TRUE
            /\ call' = Called("enable_emotion_recognition", "SUCCESS")
    /\ UNCHANGED <<speaker_diarization, speech_recognition, speaker_identification,
                   running, recording, speakers, audio_buffer>>

\* A Speaker_ID is [name, vector, vector_size], vector a float buffer [id, data].
\* Speaker_ID(n, v, vs), the constructor of lines 26-27.
Speaker_ID(n, v, vs) == [name |-> n, vector |-> v, vector_size |-> vs]

\* What a size_t that no constructor wrote can hold.
IndeterminateSizes == {0, VOCAL_EMBEDDINGS_SIZE}

\* Speaker_ID(const Speaker_ID &other): name copied, a new buffer of
\* other.vector_size floats filled from other's; vector_size is not written
\* and holds garbage.
copy_Speaker_ID(other, id, garbage) ==
    [name |-> other.name,
     vector |-> [id |-> id,
                 data |-> [i \in 1 .. other.vector_size |-> other.vector.data[i]]],
     vector_size |-> garbage]

\* Speaker_ID(Speaker_ID &&other) and operator=(Speaker_ID &&other): name and
\* vector taken over, vector_size copied.
move_Speaker_ID(other) ==
    [name |-> other.name, vector |-> other.vector, vector_size |-> other.vector_size]

\* bool operator==(const std::string &name).
SpeakerEquals(speaker, name) == speaker.name = name

\* speakers.reserve(speakers.size() + 1) when it succeeds: the profiles are
\* moved to the new storage where one is needed.
reserve(v) == [i \in 1 .. Len(v) |-> move_Speaker_ID(v[i])]

\* std::copy(embedding, embedding + VOCAL_EMBEDDINGS_SIZE, embedding_copy.get())
\* into the buffer std::make_unique<float[]>(VOCAL_EMBEDDINGS_SIZE) made.
copy_embedding(embedding, id) ==
    [id |-> id,
     data |-> [i \in 1 .. VOCAL_EMBEDDINGS_SIZE |->
                IF i <= Len(embedding.data) THEN embedding.data[i] ELSE 0]]

\* An insertion of the copy at the front in the place of push_back.
push_back_at_front(v, speaker, id, garbage) ==
    <<copy_Speaker_ID(speaker, id, garbage)>> \o v

\* speakers.push_back(speaker): a copy of speaker is constructed at the end.
push_back(v, speaker, id, garbage) == Append(v, copy_Speaker_ID(speaker, id, garbage))

\* std::remove(first, last, name): the profiles not equal to name are
\* move-assigned to the front in their order; FindFirst is the std::find it
\* starts with, RemoveFrom the loop from position i on with result the next
\* position to fill. The value is [v, result].
RECURSIVE FindFirst(_, _, _)
FindFirst(v, name, i) ==
    IF i > Len(v) THEN i
    ELSE IF SpeakerEquals(v[i], name) THEN i
    ELSE FindFirst(v, name, i + 1)

RECURSIVE RemoveFrom(_, _, _, _)
RemoveFrom(v, name, i, result) ==
    IF i > Len(v) THEN [v |-> v, result |-> result]
    ELSE IF ~SpeakerEquals(v[i], name)
         THEN RemoveFrom([v EXCEPT ![result] = move_Speaker_ID(v[i])], name, i + 1, result + 1)
         ELSE RemoveFrom(v, name, i + 1, result)

\* std::remove that stops after the first profile equal to name.
std_remove_first_only(v, name) ==
    LET first == FindFirst(v, name, 1) IN
    IF first > Len(v) THEN [v |-> v, result |-> first]
    ELSE RemoveFrom(v, "", first + 1, first)

std_remove(v, name) ==
    LET first == FindFirst(v, name, 1) IN
    IF first > Len(v) THEN [v |-> v, result |-> first]
    ELSE RemoveFrom(v, name, first + 1, first)

\* speakers.erase(result, speakers.end()).
erase_to_end(v, result) == SubSeq(v, 1, result - 1)

\* The names and the embeddings a caller passes; an embedding is a buffer of
\* the caller holding VOCAL_EMBEDDINGS_SIZE floats.
Names == {"ann", "bob"}
Embedding(k) ==
    [id |-> <<"caller", k>>, data |-> [i \in 1 .. VOCAL_EMBEDDINGS_SIZE |-> 10 * k + i]]
Embeddings == {Embedding(k) : k \in 1 .. MaxEmbeddings}

\* The buffer the allocator hands out: the first one no profile of v holds and,
\* where given, other than `taken`. A buffer that was freed is handed out again.
FreeBuffer(v, taken) ==
    LET live == {v[i].vector.id : i \in 1 .. Len(v)} \cup {taken}
        k == CHOOSE n \in 1 .. Len(v) + 2 :
                /\ <<"engine", n>> \notin live
                /\ \A m \in 1 .. n - 1 : <<"engine", m>> \in live
    IN  <<"engine", k>>

\* Where an allocation of add_speaker fails, if one does.
AllocFailures == {"none", "reserve", "make_unique", "push_back"}

\* add_speaker(name, embedding), lines 44-62. A bad_alloc of reserve is caught
\* and INSUFFICIENT_MEMORY returned; one of make_unique (line 56) or of the
\* copy in push_back (line 60) leaves the method as an exception.
add_speaker(name, embedding, fails, garbage) ==
    /\ IF fails = "reserve"
       THEN /\ call' = CalledWith("add_speaker", [name |-> name, embedding |-> embedding],
                                   "INSUFFICIENT_MEMORY")
            /\ UNCHANGED speakers
       ELSE IF fails \in {"make_unique", "push_back"}
       THEN /\ call' = CalledWith("add_speaker", [name |-> name, embedding |-> embedding],
                                   "bad_alloc")
            /\ speakers' = reserve(speakers)
       ELSE LET embedding_copy == copy_embedding(embedding, FreeBuffer(speakers, NullId))
                speaker == Speaker_ID(name, embedding_copy, VOCAL_EMBEDDINGS_SIZE)
            IN
            /\ speakers' = push_back(reserve(speakers), speaker,
                                     FreeBuffer(speakers, embedding_copy.id), garbage)
            /\ call' = CalledWith("add_speaker", [name |-> name, embedding |-> embedding],
                                   "SUCCESS")
    /\ UNCHANGED <<flagVars, running, recording, audio_buffer>>

\* remove_speaker(name), lines 64-66.
remove_speaker(name) ==
    /\ LET r == std_remove(speakers, name) IN
       speakers' = erase_to_end(r.v, r.result)
    /\ call' = CalledWith("remove_speaker", [name |-> name], "void")
    /\ UNCHANGED <<flagVars, running, recording, audio_buffer>>

\* push_to_audio_buffer(std::move(segment)), lines 40-42. Both it and
\* Ring_Buffer::push are noexcept: when lazy_initialize throws inside push,
\* std::terminate ends the process.
push_to_audio_buffer(segment) ==
    /\ IF PushThrows(segment)
       THEN /\ call' = CalledWith("push_to_audio_buffer", [name |-> "none", size |-> segment.size],
                                   "std::terminate")
            /\ UNCHANGED audio_buffer
       ELSE /\ audio_buffer' = PushSegment(audio_buffer, segment, <<"engine", 0>>, 0)
            /\ call' = CalledWith("push_to_audio_buffer", [name |-> "none", size |-> segment.size],
                                   "void")
    /\ UNCHANGED <<flagVars, running, recording, speakers>>

\* The full windows a caller passes to push_to_audio_buffer.
FullWindow(k) ==
    LET seg == lazy_initialize(Audio_Segment(0), SAMPLES_PER_SEGMENT, <<"caller", k>>, 0) IN
    [seg EXCEPT !.audio.data = [i \in 1 .. SAMPLES_PER_SEGMENT |-> k]]

\* The segments a caller passes: a full window, or a default-constructed
\* Audio_Segment (size 0, no buffer).
Segments == {FullWindow(1), Audio_Segment(0)}

\* ------------------------------------------------- the engine and its caller

\* A caller makes up to MaxCalls calls of the engine's methods, in any order.
Engine_Call(method) ==
    /\ call.n < MaxCalls
    /\ call.ret # "std::terminate"
    /\ method
    /\ UNCHANGED <<tpVars, unitVars, pipeVars>>

NextEngine ==
    \/ Engine_Call(enable_speaker_diarization)
    \/ Engine_Call(enable_speech_recognition)
    \/ Engine_Call(enable_speaker_identification)
    \/ Engine_Call(enable_emotion_recognition)
    \/ Engine_Call(start_engine)
    \/ Engine_Call(stop_engine)
    \/ Engine_Call(start_recording)
    \/ Engine_Call(stop_recording)
    \/ \E name \in Names, embedding \in Embeddings, garbage \in IndeterminateSizes :
            Engine_Call(add_speaker(name, embedding, "none", garbage))
    \/ \E name \in Names, embedding \in Embeddings, fails \in AllocFailures \ {"none"} :
            Engine_Call(add_speaker(name, embedding, fails, 0))
    \/ \E name \in Names : Engine_Call(remove_speaker(name))
    \/ \E segment \in Segments : Engine_Call(push_to_audio_buffer(segment))

InitEngine ==
    EngineConstructed /\ PipeConstructed /\ TimePointRingUnused /\ WrapUnused /\ SegmentUnused
        /\ MainUnused

SpecEngine == InitEngine /\ [][NextEngine]_vars

\* The feature flag an enable method sets.
Features ==
    {"speaker_diarization", "speech_recognition", "speaker_identification",
     "emotion_recognition"}
EnableOp(X) == "enable_" \o X
Flag(X) ==
    CASE X = "speaker_diarization" -> speaker_diarization
      [] X = "speech_recognition" -> speech_recognition
      [] X = "speaker_identification" -> speaker_identification
      [] X = "emotion_recognition" -> emotion_recognition

C12_FlagsAreOneShot ==
    [][\A X \in Features : Flag(X) => Flag(X)']_vars

\* A flag was set, and the engine was started and stopped after that.
C12_Witness ==
    /\ call.n = 3
    /\ call.op = "stop_engine"
    /\ call.prev.op = "start_engine"
    /\ speaker_identification

\* C13: in every state where running is true, no operation of the engine
\* changes the value of any of the four feature flags.
C13_FlagsFrozenWhileRunning ==
    [][running => UNCHANGED flagVars]_vars

\* enable_emotion_recognition() was called on a running engine with the flag unset.
C13_Witness ==
    /\ running
    /\ call.op = "enable_emotion_recognition"
    /\ ~emotion_recognition

\* The enable methods.
EnableOps == {EnableOp(X) : X \in Features}

\* C14: an enable_X() call that returns INVALID_OPERATION leaves the whole
\* engine state unchanged: the four flags, running, recording, the speakers
\* and the audio_buffer.
C14_RefusedEnableChangesNothing ==
    [][(call'.n # call.n /\ call'.op \in EnableOps /\ call'.ret = "INVALID_OPERATION")
        => UNCHANGED <<flagVars, running, recording, speakers, audio_buffer>>]_vars

\* enable_speech_recognition() was refused on a running engine that holds a
\* speaker.
C14_Witness ==
    /\ call.op = "enable_speech_recognition"
    /\ call.ret = "INVALID_OPERATION"
    /\ running
    /\ speakers # <<>>

\* ------------------------------------------------------------ the pipeline

\* The control path calls the engine while the stages run, each call changing
\* running or recording. ctl counts the calls, the stops (recording true ->
\* false) and the restarts (false -> true).
Control_StartEngine ==
    /\ ctl.ops < MaxControl
    /\ ~running
    /\ start_engine
    /\ ctl' = [ctl EXCEPT !.ops = @ + 1]
    /\ UNCHANGED <<raw, mutex, streaming, clock, cap, st, reads, pushes, halves, published>>
    /\ UNCHANGED <<tpVars, unitVars>>

Control_StopEngine ==
    /\ ctl.ops < MaxControl
    /\ running
    /\ stop_engine
    /\ ctl' = [ctl EXCEPT !.ops = @ + 1]
    /\ UNCHANGED <<raw, mutex, streaming, clock, cap, st, reads, pushes, halves, published>>
    /\ UNCHANGED <<tpVars, unitVars>>

Control_StartRecording ==
    /\ ctl.ops < MaxControl
    /\ ~recording
    /\ start_recording
    /\ ctl' = [ctl EXCEPT !.ops = @ + 1, !.restarts = @ + 1, !.boot = TRUE]
    /\ UNCHANGED <<raw, mutex, streaming, clock, cap, st, reads, pushes, halves, published>>
    /\ UNCHANGED <<tpVars, unitVars>>

Control_StopRecording ==
    /\ ctl.ops < MaxControl
    /\ recording
    /\ stop_recording
    /\ ctl' = [ctl EXCEPT !.ops = @ + 1, !.stops = @ + 1]
    /\ UNCHANGED <<raw, mutex, streaming, clock, cap, st, reads, pushes, halves, published>>
    /\ UNCHANGED <<tpVars, unitVars>>

\* Time passes.
Tick ==
    /\ clock < MaxClock
    /\ clock' = clock + 1
    /\ UNCHANGED <<raw, mutex, streaming, cap, st, reads, pushes, halves, published, ctl>>
    /\ UNCHANGED <<tpVars, unitVars, engineVars>>

\* main() lines 291-315: the four features enabled, the engine started, the
\* recording started, the raw buffer made, the stages dispatched.
InitPipe ==
    /\ speaker_diarization = TRUE
    /\ speech_recognition = TRUE
    /\ speaker_identification = TRUE
    /\ emotion_recognition = TRUE
    /\ running = TRUE
    /\ recording = TRUE
    /\ speakers = <<>>
    /\ audio_buffer = NewRing(AUDIO_BUFFER_SIZE, Audio_Segment(0))
    /\ call = [n |-> 0, op |-> "start_recording", ret |-> "void",
               prev |-> [op |-> "start_engine", ret |-> "void"], started |-> TRUE,
               arg |-> NoArg]
    /\ PipeConstructed
    /\ TimePointRingUnused
    /\ WrapUnused
    /\ SegmentUnused
    /\ MainUnused

NextPipe ==
    \/ Capture
    \/ Stitch
    \/ Control_StartEngine \/ Control_StopEngine
    \/ Control_StartRecording \/ Control_StopRecording
    \/ Tick

SpecPipe == InitPipe /\ [][NextPipe]_vars

\* The pipeline with the clock standing still: what the stages do with the
\* samples does not depend on the time.
NextStitch ==
    \/ Capture
    \/ Stitch
    \/ Control_StartEngine \/ Control_StopEngine
    \/ Control_StartRecording \/ Control_StopRecording

SpecStitch == InitPipe /\ [][NextStitch]_vars

\* The same under fair scheduling: a thread that can take a step takes one.
SpecShutdown == SpecStitch /\ WF_vars(Capture) /\ WF_vars(Stitch)

\* Fair scheduling that forces no failure: a thread that can take a step
\* without a failure of the device or the filter takes one, and a thread that
\* asks for the mutex again and again gets it (the capture loop blocks in
\* read_audio_segment between two pushes, the stitching loop sleeps 10 ms after
\* an empty pop). A read with nothing more to deliver blocks.
SpecLive ==
    /\ SpecStitch
    /\ WF_vars(Capture /\ cap'.pc # "threw" /\ ~cap'.err_on_last_iteration)
    /\ WF_vars(Stitch /\ st'.pc # "threw")
    /\ SF_vars(Capture_PushLock) /\ SF_vars(Stitch_PopLock)

\* ------------------------------------------------------------------- main()

\* The calls main() makes on the engine before it dispatches, lines 293-298.
MainEngineCalls ==
    <<"enable_speaker_diarization", "enable_speech_recognition",
      "enable_speaker_identification", "enable_emotion_recognition",
      "start_engine", "start_recording">>

\* main() at its first statement on the engine get_instance() constructed.
InitMain ==
    /\ main_pc = "293"
    /\ tasks = <<>>
    /\ thrown = NoException
    /\ exit_status = -1
    /\ EngineConstructed
    /\ PipeConstructed
    /\ TimePointRingUnused
    /\ WrapUnused
    /\ SegmentUnused

\* A statement of main() that calls the engine; the status it returns is
\* dropped.
Main_Call(at, method, next) ==
    /\ main_pc = at
    /\ method
    /\ main_pc' = next
    /\ UNCHANGED <<tasks, thrown, exit_status, wrap_arg, wrap_ret, seg_obj, seg_made, seg_call, tpVars, pipeVars>>

\* Line 299: the raw buffer is made.
Main_MakeRing ==
    /\ main_pc = "299"
    /\ raw' = NewRing(AUDIO_BUFFER_SIZE, Audio_Segment(0))
    /\ main_pc' = "302"
    /\ UNCHANGED <<mutex, streaming, clock, cap, st, reads, pushes, halves, published, ctl>>
    /\ UNCHANGED <<tasks, thrown, exit_status, wrap_arg, wrap_ret, seg_obj, seg_made, seg_call, tpVars, engineVars>>

\* tasks.push_back of a stage function, under the `if` of its flag where there
\* is one.
Main_Task(at, enabled, stage, next) ==
    /\ main_pc = at
    /\ tasks' = IF enabled THEN Append(tasks, stage) ELSE tasks
    /\ main_pc' = next
    /\ UNCHANGED <<thrown, exit_status>>
    /\ UNCHANGED <<wrap_arg, wrap_ret, seg_obj, seg_made, seg_call, tpVars, engineVars, pipeVars>>

\* Lines 313-315: tbb::parallel_for over tasks; main() stays in it while the
\* stages run.
Main_ParallelFor ==
    /\ main_pc = "313"
    /\ main_pc' = "parallel_for"
    /\ UNCHANGED <<tasks, thrown, exit_status, wrap_arg, wrap_ret, seg_obj, seg_made, seg_call, tpVars, engineVars,
                   pipeVars>>

\* A call on the engine made while the stages run.
Main_Control(method) ==
    /\ main_pc = "parallel_for"
    /\ call.n < Len(MainEngineCalls) + MaxCalls
    /\ method
    /\ UNCHANGED <<tpVars, unitVars, pipeVars>>

\* enum tsrt_status_code: the value of an enumerator is its place in the list.
tsrt_status_code ==
    <<"SUCCESS", "INSUFFICIENT_MEMORY", "IO_ERROR", "INVALID_ARGUMENT", "CONFIGURATION_ERROR",
      "RUNTIME_ERROR", "OUT_OF_RANGE_ERROR", "TRY_AGAIN", "INVALID_OPERATION", "UNKNOWN_ERROR">>

\* The int an enumerator converts to.
StatusValue(code) == (CHOOSE i \in DOMAIN tsrt_status_code : tsrt_status_code[i] = code) - 1

\* The direct base class of an exception class; an int that is thrown has none.
BaseClass ==
    [t \in {"std::exception", "int"} |-> "none"] @@
    [t \in {"std::bad_alloc", "std::bad_cast", "std::runtime_error", "std::logic_error",
            "Tsrt_Exception"} |-> "std::exception"] @@
    [t \in {"std::system_error", "std::range_error"} |-> "std::runtime_error"] @@
    [t \in {"std::ios_base::failure"} |-> "std::system_error"] @@
    [t \in {"std::out_of_range", "std::invalid_argument", "std::length_error"} |->
        "std::logic_error"]

\* An object of class t is an object of class b.
RECURSIVE IsA(_, _)
IsA(t, b) ==
    IF t = b THEN TRUE
    ELSE IF BaseClass[t] = "none" THEN FALSE
    ELSE IsA(BaseClass[t], b)

\* What can be thrown: a Tsrt_Exception carries a status code.
Exceptions ==
    {[type |-> "Tsrt_Exception", status_code |-> tsrt_status_code[i]] :
        i \in DOMAIN tsrt_status_code} \cup
    {[type |-> t, status_code |-> "none"] : t \in DOMAIN BaseClass \ {"Tsrt_Exception"}}

exception_status_code_map ==
    [t \in {"std::bad_alloc"} |-> "INSUFFICIENT_MEMORY"] @@
    [t \in {"std::ios_base::failure"} |-> "IO_ERROR"] @@
    [t \in {"std::runtime_error"} |-> "RUNTIME_ERROR"] @@
    [t \in {"std::out_of_range"} |-> "OUT_OF_RANGE_ERROR"] @@
    [t \in {"std::invalid_argument"} |-> "INVALID_ARGUMENT"] @@
    [t \in {"std::logic_error"} |-> "CONFIGURATION_ERROR"]

\* handle_exception with the status code a Tsrt_Exception carries returned.
handle_exception_ReturningCarriedCode(e) ==
    IF e.type \in DOMAIN exception_status_code_map THEN exception_status_code_map[e.type]
    ELSE IF e.type = "Tsrt_Exception" THEN e.status_code
    ELSE "UNKNOWN_ERROR"

\* handle_exception(e): find(typeid(e)) looks up the dynamic type of e.
handle_exception(e) ==
    IF e.type \in DOMAIN exception_status_code_map
    THEN exception_status_code_map[e.type]
    ELSE "UNKNOWN_ERROR"

\* The catch clauses of main() in their order; "..." catches anything.
CatchClauses ==
    <<"std::bad_alloc", "std::ios_base::failure", "std::runtime_error", "std::out_of_range",
      "std::invalid_argument", "std::logic_error", "Tsrt_Exception", "std::exception", "...">>

\* The first clause that matches e.
CatchClause(e) ==
    LET Matches(i) == CatchClauses[i] = "..." \/ IsA(e.type, CatchClauses[i])
        first == CHOOSE i \in DOMAIN CatchClauses :
                    Matches(i) /\ \A j \in 1 .. i - 1 : ~Matches(j)
    IN CatchClauses[first]

\* An exception leaves a stage while main() is in parallel_for and reaches
\* main()'s try block.
Main_StageThrows ==
    /\ main_pc = "parallel_for"
    /\ \E e \in Exceptions : thrown' = e
    /\ main_pc' = "catch"
    /\ UNCHANGED <<tasks, exit_status>>
    /\ UNCHANGED <<wrap_arg, wrap_ret, seg_obj, seg_made, seg_call, tpVars, engineVars, pipeVars>>

\* Lines 317-340: the matching clause returns handle_exception(e); the last
\* one logs and returns UNKNOWN_ERROR.
Main_Catch ==
    /\ main_pc = "catch"
    /\ exit_status' = IF CatchClause(thrown) = "..."
                      THEN StatusValue("UNKNOWN_ERROR")
                      ELSE StatusValue(handle_exception(thrown))
    /\ main_pc' = "returned"
    /\ UNCHANGED <<tasks, thrown>>
    /\ UNCHANGED <<wrap_arg, wrap_ret, seg_obj, seg_made, seg_call, tpVars, engineVars, pipeVars>>

\* Line 342: return SUCCESS, once parallel_for has returned; the stages loop
\* while the engine is running.
Main_Return ==
    /\ main_pc = "parallel_for"
    /\ ~running
    /\ exit_status' = StatusValue("SUCCESS")
    /\ main_pc' = "returned"
    /\ UNCHANGED <<tasks, thrown>>
    /\ UNCHANGED <<wrap_arg, wrap_ret, seg_obj, seg_made, seg_call, tpVars, engineVars, pipeVars>>

NextMain ==
    \/ Main_Call("293", enable_speaker_diarization, "294")
    \/ Main_Call("294", enable_speech_recognition, "295")
    \/ Main_Call("295", enable_speaker_identification, "296")
    \/ Main_Call("296", enable_emotion_recognition, "297")
    \/ Main_Call("297", start_engine, "298")
    \/ Main_Call("298", start_recording, "299")
    \/ Main_MakeRing
    \/ Main_Task("302", TRUE, "audio_recording_thread", "303")
    \/ Main_Task("303", TRUE, "audio_preprocessing_thread", "304")
    \/ Main_Task("304", speech_recognition, "speech_recognition_thread", "306")
    \/ Main_Task("306", speaker_diarization, "speaker_diarization_thread", "308")
    \/ Main_Task("308", speaker_identification, "speaker_identification_thread", "310")
    \/ Main_Task("310", emotion_recognition, "emotion_recognition_thread", "312")
    \/ Main_Task("312", TRUE, "script_writing_thread", "313")
    \/ Main_ParallelFor
    \/ Main_Control(enable_speaker_diarization)
    \/ Main_Control(enable_speech_recognition)
    \/ Main_Control(enable_speaker_identification)
    \/ Main_Control(enable_emotion_recognition)
    \/ Main_Control(start_engine)
    \/ Main_Control(stop_engine)
    \/ Main_Control(start_recording)
    \/ Main_Control(stop_recording)
    \/ Main_StageThrows
    \/ Main_Catch
    \/ Main_Return

SpecMain == InitMain /\ [][NextMain]_vars

\* --------------------------------------------------- claims on the pipeline

\* The positions of a thread inside Ring_Buffer::push / pop, after the
\* lock_guard statement was entered, and those that read or write head, tail or
\* a slot.
InPush == {"push_unlock", "push_init", "push_assign", "push_head", "push_full", "push_tail"}
PushAccess == InPush \ {"push_unlock"}
InPop == {"pop_unlock", "pop_empty", "pop_move", "pop_release", "pop_tail"}
PopAccess == InPop \ {"pop_unlock"}

\* C3: on the thread-safe buffer the mutex is held for the whole body of push
\* and of pop, so no thread reads or writes head, tail or a slot while the other
\* thread is between the first and the last step of a push or pop.
C3_MutexHeldForWholeBody ==
    /\ cap.pc \in InPush => mutex = "cap"
    /\ st.pc \in InPop => mutex = "st"
    /\ ~(cap.pc \in PushAccess /\ st.pc \in InPop)
    /\ ~(st.pc \in PopAccess /\ cap.pc \in InPush)

\* The number of the half-window a segment holds, 0 when its samples are those
\* of no half-window the audio source delivered.
ChunkOf(seg) ==
    IF \E k \in 1 .. MaxReads : seg.audio.data = Chunk(k)
    THEN CHOOSE k \in 1 .. MaxReads : seg.audio.data = Chunk(k)
    ELSE 0

\* C4: with the capture thread pushing and the stitching thread popping, the
\* values pop returns are a subsequence of the pushed values in push order:
\* each was pushed, none comes twice or out of order.
C4_PopsAreSubsequenceOfPushes ==
    /\ \A i \in 1 .. Len(halves) :
        \E j \in 1 .. Len(pushes) : pushes[j] = ChunkOf(halves[i])
    /\ \A i, j \in 1 .. Len(halves) : i < j => ChunkOf(halves[i]) < ChunkOf(halves[j])

\* The half-windows the stitching algorithm has handled: those popped, less the
\* one still to be handled or the one on which the stage ended.
Stitched ==
    IF st.pc \in {"process", "threw", "ub"} /\ halves # <<>>
    THEN SubSeq(halves, 1, Len(halves) - 1)
    ELSE halves

\* The full window made of half-window a followed by half-window b from the
\* midpoint on.
WindowOf(a, b) ==
    [j \in 1 .. SAMPLES_PER_SEGMENT |->
        IF j <= SAMPLES_PER_HALF_SEGMENT THEN a[j]
        ELSE IF j - SAMPLES_PER_SEGMENT \div 2 \in 1 .. SAMPLES_PER_HALF_SEGMENT
             THEN b[j - SAMPLES_PER_SEGMENT \div 2]
        ELSE 0]

Max(a, b) == IF a >= b THEN a ELSE b

\* C5: with no recording restart, n >= 1 half-windows w_1..w_n handled in order
\* give exactly n-1 published windows, the i-th being w_i followed by w_(i+1)
\* from the midpoint on; so w_1 alone publishes nothing and every w_i with
\* 1 < i < n is the second half of window i-1 and the first half of window i.
C5_StitchedWindows ==
    ctl.restarts = 0 =>
        /\ Len(published) = Max(Len(Stitched) - 1, 0)
        /\ \A i \in 1 .. Len(published) :
            /\ published[i].size = SAMPLES_PER_SEGMENT
            /\ published[i].audio.data =
                    WindowOf(Stitched[i].audio.data, Stitched[i + 1].audio.data)

\* Three half-windows of the audio source were stitched into two windows.
C5_Witness ==
    /\ ctl.restarts = 0
    /\ st.pc = "loop"
    /\ Len(Stitched) = 3
    /\ Len(published) = 2
    /\ \A i \in 1 .. 3 : ChunkOf(Stitched[i]) = i

\* C6: every published window carries the timestamp of the half-window in its
\* first half, the first published window included.
C6_WindowStampedWithFirstHalf ==
    \A i \in 1 .. Len(published) :
        i + 1 <= Len(Stitched) => published[i].timestamp = Stitched[i].timestamp

\* C7: a half-window popped from the raw buffer carries a timestamp taken after
\* its own read completed.
C7_HalfWindowStampedAfterRead ==
    \A i \in 1 .. Len(halves) :
        ChunkOf(halves[i]) >= 1 => halves[i].timestamp >= reads[ChunkOf(halves[i])].at

\* C8: the timestamps of the published windows never decrease in publication order.
C8_PublishedTimestampsMonotonic ==
    \A i, j \in 1 .. Len(published) :
        i < j => published[i].timestamp <= published[j].timestamp

\* C9: after the recording is stopped and started again the first half-window
\* stitched publishes nothing, and no published window joins a half-window
\* read before a stop with one read after the restart that followed it.
C9_RestartBootstraps ==
    /\ ~ctl.bootPublished
    /\ \A i \in 1 .. Len(published) :
        (i + 1 <= Len(Stitched)
            /\ ChunkOf(Stitched[i]) >= 1 /\ ChunkOf(Stitched[i + 1]) >= 1)
        => ~(reads[ChunkOf(Stitched[i])].stops < reads[ChunkOf(Stitched[i + 1])].restarts)

\* A stage function has returned, or has ended with an exception or in
\* undefined behaviour.
StageExited(locals) == locals.pc \in {"done", "threw", "ub"}

\* The audio source has delivered every half-window it has.
SourceExhausted == Len(reads) >= MaxReads

\* C15: once stop_engine() has set running to false and it stays false, the
\* capture and the stitching loop eventually exit under fair scheduling,
\* whatever the value of recording is at that time (unless the audio source
\* ran dry under a blocking read first).
C15_ShutdownStopsEveryStage ==
    (<>[](~running)) => <>(SourceExhausted \/ (StageExited(cap) /\ StageExited(st)))

\* C16: push(value) completes for every value and every buffer state, a
\* default-constructed (zero-length) Audio_Segment included.
C16_PushAlwaysCompletes ==
    call.op = "push_to_audio_buffer" => call.ret = "void"

\* The values a Ring_Buffer<time_point, false, Size> holds unread: those in
\* the slots from tail up to head, and the oldest of them (the values are
\* numbered in push order).
Unread(rb) ==
    {rb.buffer[(rb.tail + k) % rb.size] :
        k \in 0 .. ((rb.head + rb.size - rb.tail) % rb.size) - 1}
Oldest(rb) == CHOOSE v \in Unread(rb) : \A w \in Unread(rb) : v <= w

\* C17: pop() on a buffer with no unread element returns nullopt and leaves
\* head, tail and every slot unchanged; pop() on a buffer with an unread
\* element returns the oldest unread element and advances tail by one, back to
\* 0 after the last slot.
C17_PopContract ==
    [][tp_lastPop' # "none" =>
        IF Unread(tp_ring) = {}
        THEN /\ tp_lastPop' = "nullopt"
             /\ tp_popped' = tp_popped
             /\ tp_ring' = tp_ring
        ELSE /\ tp_lastPop' = "value"
             /\ tp_popped' = Append(tp_popped, Oldest(tp_ring))
             /\ tp_ring'.tail = (tp_ring.tail + 1) % tp_ring.size
             /\ tp_ring'.head = tp_ring.head
             /\ tp_ring'.buffer = tp_ring.buffer]_vars

\* A pop() returned a value from the last slot of a buffer of three or more
\* slots, and tail went back to 0.
C17_Witness ==
    /\ tp_lastPop = "value"
    /\ tp_ring.size >= 3
    /\ tp_ring.tail = 0
    /\ tp_popped # <<>>

\* The profiles of v with a name other than name, in their order.
Others(v, name) == SelectSeq(v, LAMBDA p : p.name # name)

Buffers(v) == {v[i].vector.id : i \in 1 .. Len(v)}

\* C19: a successful add_speaker(name, embedding) appends exactly one profile
\* with that name at the end of the speakers, holding a copy of the embedding
\* in a buffer of its own, and leaves the existing profiles, the flags, running
\* and recording unchanged; when it returns INSUFFICIENT_MEMORY the speakers
\* are unchanged.
C19_AddSpeakerAppendsOne ==
    [][(call'.n # call.n /\ call'.op = "add_speaker") =>
        /\ call'.ret = "SUCCESS" =>
            /\ Len(speakers') = Len(speakers) + 1
            /\ SubSeq(speakers', 1, Len(speakers)) = speakers
            /\ LET p == speakers'[Len(speakers')] IN
                /\ p.name = call'.arg.name
                /\ p.vector.data = call'.arg.embedding.data
                /\ Len(p.vector.data) = VOCAL_EMBEDDINGS_SIZE
                /\ p.vector.id # call'.arg.embedding.id
                /\ p.vector.id \notin Buffers(speakers)
            /\ UNCHANGED <<flagVars, running, recording>>
        /\ call'.ret = "INSUFFICIENT_MEMORY" => speakers' = speakers]_vars

\* add_speaker succeeded on an engine that held a profile of another name.
C19_Witness ==
    /\ call.op = "add_speaker"
    /\ call.ret = "SUCCESS"
    /\ Len(speakers) = 2
    /\ speakers[1].name # speakers[2].name
    /\ speakers[2].name = call.arg.name

\* C20: the capture stage ends with a fatal error only on a failure of stream
\* start, stop or read that directly follows another failure; a failure that
\* does not is logged (err_on_last_iteration set) and retried on the next cycle.
C20_SingleFailureIsRetried ==
    cap.pc = "threw" => cap.err_on_last_iteration

\* C21: the capture stage is ended by stream failures only on the second of two
\* consecutive failures, with an IO_ERROR exception, and pushes nothing to the
\* raw buffer once it has ended.
C21_ConsecutiveFailuresEndWithIoError ==
    /\ [](cap.pc = "threw" => cap.exc = "IO_ERROR")
    /\ [][cap.pc = "threw" => pushes' = pushes]_vars

\* C22: in a ring buffer of capacity 16, for every index i >= 0 the bitmask
\* i & 15 equals i % 16, and wrap_index returns that value, which is in 0..15.
C22_MaskEqualsModulo ==
    /\ BitAnd(wrap_arg, Capacity - 1) = wrap_arg % Capacity
    /\ wrap_ret # <<>> =>
        /\ wrap_ret[1] = wrap_arg % Capacity
        /\ wrap_ret[1] \in 0 .. Capacity - 1

\* wrap_index returned for an index beyond the capacity, with bits set on both
\* sides of the mask.
C22_Witness ==
    /\ wrap_arg = 2 * Capacity + 5
    /\ wrap_ret = <<5>>

\* The segment owns no buffer, or its midpoint points at size / 2 of the buffer
\* it owns.
MidpointAtHalf(seg) ==
    seg.audio.id # NullId =>
        seg.midpoint = [id |-> seg.audio.id, off |-> seg.size \div 2]

\* The segments of the pipeline: the slots of the raw and of the finished
\* buffer, and the stages' local segments (the popped one once its construction
\* is complete).
PipelineSegments ==
    {raw.buffer[i] : i \in 0 .. raw.size - 1}
        \cup {audio_buffer.buffer[i] : i \in 0 .. audio_buffer.size - 1}
        \cup {cap.audio_segment, cap.value, st.full_audio_segment}
        \cup (IF st.pc = "pop_release" THEN {} ELSE {st.latest_half_segment})

\* C23: every Audio_Segment that owns a sample buffer has its midpoint at
\* length / 2 inside that buffer, in every reachable state, the segments stored
\* in and popped from a ring buffer included.
C23_MidpointAtHalfOfOwnBuffer == \A seg \in PipelineSegments : MidpointAtHalf(seg)

\* Where the pipeline keeps a segment: the slots of the raw and of the finished
\* buffer and the stages' local segments (the popped one once its construction
\* is complete), and the segment kept there.
SegmentPlaces ==
    {<<"raw", i>> : i \in 0 .. raw.size - 1}
        \cup {<<"audio_buffer", i>> : i \in 0 .. audio_buffer.size - 1}
        \cup {<<"cap", "audio_segment">>, <<"cap", "value">>,
              <<"st", "full_audio_segment">>}
        \cup (IF st.pc = "pop_release" THEN {} ELSE {<<"st", "latest_half_segment">>})
SegmentAt(place) ==
    CASE place[1] = "raw" -> raw.buffer[place[2]]
      [] place[1] = "audio_buffer" -> audio_buffer.buffer[place[2]]
      [] place = <<"cap", "audio_segment">> -> cap.audio_segment
      [] place = <<"cap", "value">> -> cap.value
      [] place = <<"st", "full_audio_segment">> -> st.full_audio_segment
      [] OTHER -> st.latest_half_segment

\* C24: no sample buffer is owned by two segments at once, so that a write into
\* a stage's local segment after its reset never reaches the samples of a
\* segment already pushed or published.
C24_NoBufferOwnedTwice ==
    \A p, q \in SegmentPlaces :
        (p # q /\ SegmentAt(p).audio.id # NullId) =>
            SegmentAt(p).audio.id # SegmentAt(q).audio.id

\* The segment owns no sample buffer and reports length 0.
EmptySegment(a) == a.audio = nullptr_audio /\ a.size = 0

\* C25: a copy (construction or assignment) has its own buffer with the
\* source's samples, length and timestamp, and the source is as before; a move
\* (construction or assignment) gives the destination the source's buffer and
\* leaves the source empty: it owns no buffer and reports length 0.
C25_CopyDuplicatesMoveEmpties ==
    /\ (seg_call.op \in {"copy_construct", "copy_assign"} /\ seg_call.ret = "void") =>
        /\ seg_made.audio.id # NullId
        /\ seg_made.audio.id # seg_obj.audio.id
        /\ seg_made.audio.data = seg_call.seg.audio.data
        /\ seg_made.size = seg_call.seg.size
        /\ seg_made.timestamp = seg_call.seg.timestamp
        /\ seg_obj = seg_call.seg
    /\ seg_call.op \in {"move_construct", "move_assign"} =>
        /\ seg_made.audio = seg_call.seg.audio
        /\ EmptySegment(seg_obj)

\* C26: lazy_initialize(0) fails with INVALID_ARGUMENT and leaves the segment's
\* buffer, midpoint, timestamp and length as they were; lazy_initialize(n) with
\* n > 0 leaves the segment with a buffer of n floats, length n and its midpoint
\* at n / 2 of that buffer.
C26_LazyInitializeContract ==
    seg_call.op = "lazy_initialize" =>
        IF seg_call.arg = 0
        THEN /\ seg_call.ret = "INVALID_ARGUMENT"
             /\ seg_obj = seg_call.seg
        ELSE /\ seg_call.ret = "void"
             /\ seg_obj.audio.id # NullId
             /\ Len(seg_obj.audio.data) = seg_call.arg
             /\ seg_obj.size = seg_call.arg
             /\ seg_obj.midpoint = [id |-> seg_obj.audio.id, off |-> seg_call.arg \div 2]

\* lazy_initialize(0) was refused on a segment that owns a buffer of the
\* largest length.
C26_Witness ==
    /\ seg_call.op = "lazy_initialize"
    /\ seg_call.arg = 0
    /\ seg_call.ret = "INVALID_ARGUMENT"
    /\ seg_obj.audio.id # NullId
    /\ seg_obj.size = MaxLen

\* The number of values successive pop() calls return until one returns nullopt.
RECURSIVE PopsUntilEmpty(_)
PopsUntilEmpty(rb) ==
    LET r == PopTrivial(rb) IN
    IF r.ret = <<>> THEN 0 ELSE 1 + PopsUntilEmpty(r.rb)

\* C27: after any sequence of push, pop and clear, head and tail are in
\* 0 .. Size - 1, pop() returns nullopt exactly when head = tail, and successive
\* pops return (head - tail) mod Size values.
C27_HeadTailInvariant ==
    /\ tp_ring.head \in 0 .. tp_ring.size - 1
    /\ tp_ring.tail \in 0 .. tp_ring.size - 1
    /\ (PopTrivial(tp_ring).ret = <<>>) <=> (tp_ring.head = tp_ring.tail)
    /\ PopsUntilEmpty(tp_ring) = (tp_ring.head + tp_ring.size - tp_ring.tail) % tp_ring.size

\* After pushes that wrapped head and dropped the oldest values, and a pop, head
\* is behind tail in a buffer of three slots and two values are unread.
C27_Witness ==
    /\ tp_ring.size = 3
    /\ tp_ring.head < tp_ring.tail
    /\ PopsUntilEmpty(tp_ring) = 2
    /\ tp_popped # <<>>

\* C28: clear() sets head and tail to 0 and leaves every slot as it was; a
\* pop() right after it returns nullopt; and the pushes and pops that follow
\* return what they return on a freshly constructed buffer.
C28_ClearResetsIndicesOnly ==
    /\ [][(tp_nvals' = tp_nvals /\ tp_lastPop' = "none") =>
            /\ tp_ring'.head = 0
            /\ tp_ring'.tail = 0
            /\ tp_ring'.buffer = tp_ring.buffer
            /\ PopTrivial(tp_ring').ret = <<>>]_vars
    /\ [](/\ tp_ring.head = tp_fresh.head
          /\ tp_ring.tail = tp_fresh.tail
          /\ PopTrivial(tp_ring).ret = PopTrivial(tp_fresh).ret)

\* clear() ran on a buffer with unread values; then a value was pushed and
\* popped, and a slot still holds a value pushed before the clear().
C28_Witness ==
    /\ tp_pushed # <<>>
    /\ tp_popped = tp_pushed
    /\ tp_nvals > Len(tp_pushed)
    /\ \E i \in 0 .. tp_ring.size - 1 :
        tp_ring.buffer[i] # DefaultTimePoint /\ tp_ring.buffer[i] < tp_pushed[1]

\* C29: start_engine() and stop_engine() always succeed and leave running
\* TRUE, respectively FALSE, whatever it was; start_recording() and
\* stop_recording() do the same for recording; each changes only its own boolean:
\* the other boolean, the four feature flags, the speakers and the finished
\* buffer are as before (so a second call in a row changes nothing).
C29_StartStopAreUnconditional ==
    [][call'.n # call.n =>
        /\ call'.op = "start_engine" =>
            /\ call'.ret = "void" /\ running' = TRUE
            /\ UNCHANGED <<recording, flagVars, speakers, audio_buffer>>
        /\ call'.op = "stop_engine" =>
            /\ call'.ret = "void" /\ running' = FALSE
            /\ UNCHANGED <<recording, flagVars, speakers, audio_buffer>>
        /\ call'.op = "start_recording" =>
            /\ call'.ret = "void" /\ recording' = TRUE
            /\ UNCHANGED <<running, flagVars, speakers, audio_buffer>>
        /\ call'.op = "stop_recording" =>
            /\ call'.ret = "void" /\ recording' = FALSE
            /\ UNCHANGED <<running, flagVars, speakers, audio_buffer>>
        /\ (call'.op = call.op /\ call'.op \in {"start_engine", "stop_engine",
                                                "start_recording", "stop_recording"}) =>
            UNCHANGED <<running, recording>>]_vars

\* start_recording() was called twice in a row on a stopped engine that holds a
\* speaker profile.
C29_Witness ==
    /\ call.op = "start_recording"
    /\ call.prev.op = "start_recording"
    /\ recording
    /\ ~running
    /\ speakers # <<>>

\* C30: a stage that finds recording false in its inner loop does no stage work
\* until it finds recording true there: the capture stage stays in the loop (or
\* ends on a stream error), reads nothing and pushes nothing; the stitching stage
\* stays in the loop, pops nothing and publishes nothing. Reads and pushes, pops
\* and publications are made only past that loop.
C30_IdleWhileNotRecording ==
    [][ /\ (cap.pc = "wait" /\ ~recording) =>
            /\ cap'.pc \in {"wait", "threw"}
            /\ cap'.audio_segment = cap.audio_segment
        /\ cap.pc = "wait" =>
            /\ reads' = reads
            /\ pushes' = pushes
            /\ raw'.head = raw.head
        /\ (st.pc = "wait" /\ ~recording) => st' = st
        /\ st.pc = "wait" =>
            /\ halves' = halves
            /\ published' = published
            /\ audio_buffer' = audio_buffer ]_vars

\* The recording is stopped and both stages are in their inner loops, the
\* capture stage having stopped the stream, while a half-window that was pushed
\* earlier is still unread in the raw buffer.
C30_Witness ==
    /\ ~recording
    /\ running
    /\ cap.pc = "wait"
    /\ st.pc = "wait"
    /\ ~streaming
    /\ halves # <<>>
    /\ raw.head # raw.tail

\* C31: the capture stage calls read only with the stream active (it starts
\* the stream first when it is not, and does not read when the start fails);
\* and with the engine running, recording false and stop_stream succeeding, an
\* active stream is eventually stopped by the stage (as long as the stage has
\* not ended and is not blocked in a read of a source that ran dry).
C31_StreamFollowsRecording ==
    /\ [](cap.pc = "read" => streaming)
    /\ [][reads' # reads => (streaming /\ streaming')]_vars
    /\ (running /\ ~recording /\ streaming)
            ~> (~streaming \/ recording \/ ~running
                    \/ StageExited(cap) \/ SourceExhausted)

\* The stage has read a half-window, the recording was stopped after that, and
\* the stage, back in its inner loop, has stopped the stream.
C31_Witness ==
    /\ running
    /\ ~recording
    /\ ~streaming
    /\ cap.pc = "wait"
    /\ reads # <<>>
    /\ ctl.stops > 0

\* C32: a failure of the audio device in start_stream, stop_stream or
\* read_audio_segment comes back to the capture stage as a status other than
\* SUCCESS, so the stage logs a first failure and goes on: it never ends with an
\* exception thrown by Audio_tsrt.
C32_DeviceFailureIsAStatus ==
    [][(cap.pc \in {"wait", "read"} /\ cap'.pc = "threw") =>
        /\ cap.err_on_last_iteration
        /\ cap'.exc = "IO_ERROR"]_vars

\* C33: after any sequence of add_speaker and remove_speaker calls, every
\* profile the engine holds has vector_size = VOCAL_EMBEDDINGS_SIZE.
C33_ProfilesHaveEmbeddingSize ==
    \A i \in 1 .. Len(speakers) : speakers[i].vector_size = VOCAL_EMBEDDINGS_SIZE

\* The stage functions main() has pushed to tasks.
TaskSet == {tasks[i] : i \in 1 .. Len(tasks)}

\* C34: main() dispatches the capture, the stitching and the script-writing
\* stage always, each once, and the stage of each of the four features exactly
\* when the feature's flag is set; and as no flag changes while the engine runs,
\* the dispatched analysis stages are those of the enabled features for as long
\* as the stages run.
C34_DispatchedStagesAreEnabledFeatures ==
    main_pc = "parallel_for" =>
        /\ {"audio_recording_thread", "audio_preprocessing_thread",
             "script_writing_thread"} \subseteq TaskSet
        /\ Cardinality(TaskSet) = Len(tasks)
        /\ \A X \in Features : (X \o "_thread" \in TaskSet) <=> Flag(X)

\* The stages are dispatched, the engine was stopped and a feature that main()
\* had enabled was asked for again and refused.
C34_Witness ==
    /\ main_pc = "parallel_for"
    /\ ~running
    /\ call.op = "enable_emotion_recognition"
    /\ call.ret = "INVALID_OPERATION"
    /\ "emotion_recognition_thread" \in TaskSet

C37_EmptyPopAndFilterFailureLeaveTheAccumulator ==
    [][ /\ (st.pc = "pop_empty" /\ st'.pc = "loop") =>
              /\ raw.head = raw.tail
              /\ published' = published
              /\ st'.full_audio_segment = st.full_audio_segment
              /\ st'.first_segment = st.first_segment
              /\ st'.last_timestamp = st.last_timestamp
        /\ (st.pc = "process" /\ st'.pc = "threw") =>
              /\ published' = published
              /\ st'.full_audio_segment = st.full_audio_segment
      ]_vars

\* The filter failed on a half-window that followed a published window, with
\* the raw buffer found empty by then.
C37_Witness ==
    /\ st.pc = "threw"
    /\ st.exc = "RUNTIME_ERROR"
    /\ ~st.first_segment
    /\ Len(published) >= 1
    /\ raw.head = raw.tail

\* The engine stays running and recording, no call on the audio device and no
\* call of the filter fails.
KeepsSucceeding ==
    [](/\ running /\ recording
       /\ cap.pc # "threw" /\ ~cap.err_on_last_iteration
       /\ st.pc # "threw")

\* C36: if the engine stays running and recording and the audio source and the
\* filter keep succeeding, then under fair scheduling, once two half-windows
\* have been captured a full window is eventually published (or the source has
\* delivered all it has and the stitching stage goes on polling for more).
C36_CaptureLeadsToPublication ==
    (KeepsSucceeding /\ <>(Len(reads) >= 2)) =>
        \/ <>(Len(published) >= 1)
        \/ <>[](SourceExhausted /\ ~StageExited(st))

====
